---- MODULE Spec2Model ----
(***************************************************************************)
(* FeliX data-processing scripts (iiasa/Felix-Model).                      *)
(*                                                                         *)
(* Every script is a linear batch run: look the data set up in the YAML    *)
(* configuration, read the raw tables, clean them, restructure the cleaned *)
(* table into one row per parameter and one column per year, write the     *)
(* CSV.  A run is one behaviour of this module: Init chooses the script    *)
(* and the contents of the files it will read, every action is one step    *)
(* of the script (a whole function call with everything it does).          *)
(*                                                                         *)
(* Numbers are exact rationals <<n, d>> in lowest terms (d >= 1); the      *)
(* scripts compute in IEEE doubles, and the model computes the value the   *)
(* doubles approximate.  The non-numbers a cell can hold are encoded as    *)
(* pairs with d = 0 so that every cell has one shape.                      *)
(***************************************************************************)
EXTENDS Integers, Sequences, FiniteSets, TLC

VARIABLES
    script,            \* the script this run executes
    pc,                \* the step the run is at
    data_info,         \* config.yaml: the list data_info["data_input"]
    raw_data_info,     \* the data set entry the script selected from the config
    disk,              \* the raw files on disk: cell -> value, NaN or Absent
    raw_data,          \* the raw table in memory once read
    concordance_loaded,\* the concordance table in memory once read
    cleaned_data,      \* the cleaned (long form) table: a sequence of entries
    restructured_data, \* the restructured (wide form) table: a sequence of rows
    cleaned_data_iiasa,\* the cleaned table of the IIASA projections
    cal_results_all,   \* the rows of calibration results gathered so far
    region_i,          \* the position of the loop over the regions
    log,               \* the errors logged (and otherwise ignored) so far
    files,             \* the files in the clean data folder: name -> content
    exception,         \* the exception that ended the run, or NoException
    run                \* how many times the script has been started

vars == <<script, pc, data_info, raw_data_info, disk, raw_data, concordance_loaded, cleaned_data,
          restructured_data, cleaned_data_iiasa, cal_results_all, region_i, log,
          files, exception, run>>

inputs == <<script, data_info, disk, run>>
tables == <<raw_data, concordance_loaded, cleaned_data, cleaned_data_iiasa, restructured_data>>
calibration == <<cal_results_all, region_i, log>>

-----------------------------------------------------------------------------
(* Bounds of the model *)

\* how many cells of the raw files may differ from the regular table in
\* which every country reports a value; an irregular configuration counts
\* for two of them
MaxIrregular == 2

\* how many times a script is started on the same files
MaxRuns == 2

-----------------------------------------------------------------------------
(* Cell values *)

RECURSIVE GCD(_, _)
GCD(a, b) == IF b = 0 THEN a ELSE GCD(b, a % b)

Abs(n) == IF n < 0 THEN -n ELSE n

\* the rational n/d in lowest terms, d > 0
Rat(n, d) ==
    LET g == GCD(Abs(n), Abs(d))
        s == IF d < 0 THEN -1 ELSE 1
    IN  <<(s * n) \div g, (s * d) \div g>>

Num(n) == <<n, 1>>
NaN == <<0, 0>>          \* numpy.nan
Blank == <<1, 0>>        \* the empty string ""
None == <<2, 0>>         \* Python None
Absent == <<3, 0>>       \* no row at all in the raw file

IsNum(v) == v[2] # 0
isna(v) == v = NaN \/ v = None

RatAdd(a, b) == Rat(a[1] * b[2] + b[1] * a[2], a[2] * b[2])
RatMul(a, b) == Rat(a[1] * b[1], a[2] * b[2])
\* float division: x / 0.0 is inf or nan with a warning, never an exception
RatDiv(a, b) == IF b[1] = 0 THEN NaN ELSE Rat(a[1] * b[2], a[2] * b[1])

\* arithmetic of pandas/numpy on cells: NaN propagates
Mul(a, b) == IF IsNum(a) /\ IsNum(b) THEN RatMul(a, b) ELSE NaN
Div(a, b) == IF IsNum(a) /\ IsNum(b) THEN RatDiv(a, b) ELSE NaN

\* Series.sum(): the sum of the values that are not NaN (0 when there is none)
RECURSIVE SumSet(_, _)
SumSet(f, S) ==
    IF S = {} THEN Num(0)
    ELSE LET k == CHOOSE x \in S : TRUE
             rest == SumSet(f, S \ {k})
         IN  IF IsNum(f[k]) THEN RatAdd(f[k], rest) ELSE rest

\* Series.sum(skipna=False): NaN as soon as one value is NaN
sum_keeping_nan(g) ==
    IF \E k \in DOMAIN g : ~IsNum(g[k]) THEN NaN ELSE SumSet(g, DOMAIN g)

sum(g) == SumSet(g, DOMAIN g)

RECURSIVE SumSeq(_)
SumSeq(s) ==
    IF s = <<>> THEN Num(0)
    ELSE IF IsNum(Head(s)) THEN RatAdd(Head(s), SumSeq(Tail(s)))
    ELSE SumSeq(Tail(s))

\* Series.isna().sum()
isna_sum(g) == Cardinality({k \in DOMAIN g : isna(g[k])})

\* len(group)
len(g) == Cardinality(DOMAIN g)

-----------------------------------------------------------------------------
(* Exceptions and steps *)

NoException == "NoException"
NoInfo == [datasource |-> "", variable |-> "", download_via |-> ""]
Empty == <<>>

SetMax(S) == CHOOSE x \in S : \A y \in S : y <= x
SetMin(S) == CHOOSE x \in S : \A y \in S : x <= y

\* numpy.unique of a column of integers: the distinct values, ascending
RECURSIVE unique(_)
unique(S) == IF S = {} THEN <<>> ELSE <<SetMin(S)>> \o unique(S \ {SetMin(S)})

Range(s) == {s[i] : i \in DOMAIN s}

\* np.unique of a column of sector names: the names present, in sorted order
SectorOrder == <<"agriculture", "industry">>
unique_sectors(S) == SelectSeq(SectorOrder, LAMBDA x : x \in S)

\* nested loops flattened: the keys in loop order
RECURSIVE Product2(_, _)
Product2(as, bs) ==
    IF as = <<>> THEN <<>>
    ELSE [i \in 1..Len(bs) |-> <<Head(as), bs[i]>>] \o Product2(Tail(as), bs)

RECURSIVE Product3(_, _, _)
Product3(as, bs, cs) ==
    IF as = <<>> THEN <<>>
    ELSE LET RECURSIVE inner(_)
             inner(b) ==
                 IF b = <<>> THEN <<>>
                 ELSE [i \in 1..Len(cs) |-> <<Head(as), Head(b), cs[i]>>] \o inner(Tail(b))
         IN  inner(bs) \o Product3(Tail(as), bs, cs)

-----------------------------------------------------------------------------
(* The scripts and what each hard-codes *)

GDP == "gdp_aggregation"
CAPITAL == "capital_activities"
WATER == "water_withdrawal_by_sector"
POP == "population_aggregation"
POP_WB == "population_aggregation_worldbank"
POP_WIT == "population_aggregation_wit"
MORT == "mortality_fraction"
TFR == "total_fertility"
EUROSTAT == "eurostat_clean"
ENERGY_TRADE == "energy_trade"
ELECT == "elect_loss_rate"
CAPITAL_SHARES == "capital_activity_shares"
NET_ENROLL == "net_enroll_primary"

Scripts == {GDP, CAPITAL, WATER, POP, POP_WB, POP_WIT, MORT, TFR, EUROSTAT, ENERGY_TRADE,
            ELECT, CAPITAL_SHARES, NET_ENROLL}

\* the scripts that fit logistic curves
CalibrationScripts == {MORT, TFR}

\* the scripts that look their data set up in a config.yaml
ConfiguredScripts == {GDP, CAPITAL, WATER, POP, MORT, TFR, ELECT, CAPITAL_SHARES,
                      NET_ENROLL}

data_source(s) ==
    CASE s = GDP -> "world_bank"
      [] s = CAPITAL -> "world_bank"
      [] s = WATER -> "aquastat"
      [] s = POP -> "unpd"
      [] s = ELECT -> "world_bank"
      [] s = CAPITAL_SHARES -> "world_bank"
      [] s = NET_ENROLL -> "world_bank"
      [] OTHER -> ""

variable(s) ==
    CASE s = GDP -> "gdp_2015usd"
      [] s = CAPITAL -> "capital_depr"
      [] s = WATER -> "wat_withdrawal"
      [] s = MORT -> "mortality_fraction"
      [] s = TFR -> "total_fertility"
      [] s = ELECT -> "elect_loss_rate"
      [] s = CAPITAL_SHARES -> "capital_form_fix_share"
      [] s = NET_ENROLL -> "gross_enroll_tertiary"
      [] OTHER -> ""

download_method(s) ==
    CASE s = GDP -> "api"
      [] s = CAPITAL -> "api"
      [] s = WATER -> "manually"
      [] s = POP -> "api"
      [] s = ELECT -> "api"
      [] s = CAPITAL_SHARES -> "api"
      [] s = NET_ENROLL -> "api"
      [] OTHER -> ""

\* the keys of a data set entry the script compares with what it hard-codes
compared_keys(s) ==
    CASE s = POP -> {"datasource", "download_via"}
      [] s \in CalibrationScripts -> {"variable"}
      [] OTHER -> {"datasource", "variable", "download_via"}

\* the name of the CSV the script writes last
output_file(s) ==
    CASE s = GDP -> "gdp_2015usd_by_time_series_world_bank_un_regions.csv"
      [] s = CAPITAL -> "capital_depr_by_time_series_world_bank.csv"
      [] s = WATER -> "wat_withdrawal_time_series_aquastat.csv"
      [] s = POP -> "population_by_time_series_unpd_iiasa.csv"
      [] s = POP_WB -> "population_by_time_series_worldbank.csv"
      [] s = POP_WIT -> "population_by_time_series.csv"
      [] s \in CalibrationScripts -> "calibration_result_" \o variable(s) \o ".csv"
      [] s = EUROSTAT -> "eurostat_personal_data_all_years_in_2005_usd.csv"
      [] s = ENERGY_TRADE -> "export_oil_iea.csv"
      [] s = ELECT -> "elect_loss_rate_by_time_series_world_bank.csv"
      [] s = CAPITAL_SHARES -> "capital_form_fix_share_by_time_series_world_bank.csv"
      [] s = NET_ENROLL -> "gross_enroll_tertiary_by_time_series_world_bank.csv"
      [] OTHER -> "cfps_person_info_full.csv"

\* the file create_data_files writes for a region and the loop removes
temp_file(s, region) == "calibration_" \o variable(s) \o "_" \o region \o ".csv"

\* the CSV population_aggregation_wit writes its cleaned table to
cleaned_file == "population_by_felix_region.csv"

\* data_info["dimension"]["region"] of the script's config.yaml
regions(s) ==
    CASE s \in {GDP, CAPITAL, CAPITAL_SHARES} ->
            <<"Africa", "AsiaPacific", "EastEu", "LAC", "WestEu", "World">>
      [] s \in {WATER, ENERGY_TRADE} -> <<"Africa", "AsiaPacific", "EastEu", "LAC", "WestEu">>
      [] OTHER -> <<"Africa", "WestEu">>

\* data_info["dimension"]["gender"] and ["age"] of population/config.yaml,
\* and the list age_cohorts of population_aggregation_wit (first and last)
genders == <<"female", "male">>
age_cohorts == <<"0--4", "100+">>

\* the countries the script's concordance table maps to each region, in the
\* order of the raw file
CountriesOf(s, region) ==
    CASE s \in {GDP, CAPITAL, CAPITAL_SHARES} ->
            (CASE region = "Africa" -> <<"af1", "af2">>
               [] region = "AsiaPacific" -> <<"ap1">>
               [] region = "EastEu" -> <<"ee1">>
               [] region = "LAC" -> <<"la1", "la2", "la3", "la4">>
               [] region = "WestEu" -> <<"we1">>
               [] region = "World" -> <<"World">>
               [] OTHER -> <<>>)
      [] s \in {WATER, ENERGY_TRADE} ->
            (CASE region = "Africa" -> <<"af1", "af2">>
               [] region = "AsiaPacific" -> <<"ap1">>
               [] region = "WestEu" -> <<"we1">>
               [] OTHER -> <<>>)
      [] s \in {POP_WB, POP_WIT, ELECT} ->
            (CASE region = "Africa" -> <<"af1", "af2">>
               [] region = "WestEu" -> <<"we1">>
               [] OTHER -> <<>>)
      [] s = NET_ENROLL ->
            (CASE region = "Africa" -> <<"af1", "af2", "af3">>
               [] region = "WestEu" -> <<"we1">>
               [] region = "World" -> <<"World">>
               [] OTHER -> <<>>)
      [] OTHER ->
            (CASE region = "Africa" -> <<"af1">>
               [] region = "WestEu" -> <<"we1">>
               [] OTHER -> <<>>)

AllRegions == <<"Africa", "AsiaPacific", "EastEu", "LAC", "WestEu", "World">>

\* the concordance table of the script: source country -> un_region
concordance_table(s) ==
    LET mapped == UNION {Range(CountriesOf(s, r)) : r \in Range(AllRegions)}
    IN  [c \in mapped |-> CHOOSE r \in Range(AllRegions) : c \in Range(CountriesOf(s, r))]

concordance_tables == [s \in Scripts |-> concordance_table(s)]
concordance(s) == concordance_tables[s]

\* the scripts that read a concordance table
ConcordanceScripts == {GDP, CAPITAL, WATER, POP, POP_WB, POP_WIT, ELECT, CAPITAL_SHARES,
                       NET_ENROLL}

\* the concordance file: beside the mapped countries it lists a source
\* country with an empty un_region
concordance_file(s) ==
    [c \in DOMAIN concordance(s) \cup {"zz1"} |->
        IF c \in DOMAIN concordance(s) THEN concordance(s)[c] ELSE ""]

\* pd.read_csv(path_concordance_folder / concordance_file) alone, the rows
\* with an empty cell kept
read_concordance_keeping_na(s) == concordance_file(s)

\* pd.read_csv(...).dropna(): the rows without an empty cell (the column
\* un_region_code, cast to int, is read by no cleaner and is left out)
read_concordance(s) ==
    [c \in {k \in DOMAIN concordance_file(s) : concordance_file(s)[k] # ""} |->
        concordance_file(s)[c]]

-----------------------------------------------------------------------------
(* The inputs a run can meet: config.yaml and the raw files *)

Dataset(src, var, via) == [datasource |-> src, variable |-> var, download_via |-> via]

\* an entry of calibration/config.yaml: the variable and the names of the
\* parameters to calibrate
CalibrationDataset(var, params) == [variable |-> var, parameter |-> params]

\* input_data_info["parameter"] of the regular calibration/config.yaml
ConfiguredParameters(s) ==
    IF s = TFR
    THEN <<"L0_gdp", "L_gdp", "k_gdp", "x0_gdp", "L0_mys", "L_mys", "k_mys", "x0_mys">>
    ELSE <<"L0", "L", "k", "x0">>

\* the entry of data_info["data_input"] the script is written for
OwnDataset(s) ==
    IF s \in CalibrationScripts
    THEN CalibrationDataset(variable(s), ConfiguredParameters(s))
    ELSE Dataset(data_source(s), variable(s), download_method(s))

\* entries that differ from it in one of the keys
OtherDatasets(s) ==
    IF s \in CalibrationScripts
    THEN { CalibrationDataset("other_variable", ConfiguredParameters(s)) }
    ELSE { Dataset("other_source", variable(s), download_method(s)),
           Dataset(data_source(s), "other_variable", download_method(s)),
           Dataset(data_source(s), variable(s), "other_method") }

\* config.yaml as the regular file (the script's own entry alone), or one of
\* the irregular ones: no entry, only entries of other data sets, or the own
\* entry beside another
IrregularConfigs(s) ==
    {<<>>} \cup {<<d>> : d \in OtherDatasets(s)}
           \cup {<<d, OwnDataset(s)>> : d \in OtherDatasets(s)}
           \cup {<<OwnDataset(s), d>> : d \in OtherDatasets(s)}

\* the years the raw files cover: population_aggregation reads UNPD
\* estimates (2000) and IIASA projections (2025)
UnpdYears == <<2000>>
IiasaYears == <<2025>>
RawYears(s) ==
    CASE s = POP -> UnpdYears \o IiasaYears
      [] s \in {CAPITAL_SHARES, NET_ENROLL} -> <<2000>>
      [] OTHER -> <<2000, 2001>>

\* the value columns of the raw files: one for the World Bank indicators, one
\* per water withdrawal sector for AQUASTAT, one per age cohort for the
\* Wittgenstein Centre, one per sex and age cohort for UNPD and IIASA
Tables(s) ==
    CASE s = WATER -> SectorOrder
      [] s = POP_WIT -> age_cohorts
      [] s = POP -> Product2(genders, <<"0-4", "100+">>)
      [] s = EUROSTAT -> <<"exp", "food", "house">>
      [] s = ENERGY_TRADE -> <<"Exports">>
      [] s = ELECT -> <<"loss_rate", "elect_output">>
      [] s = CAPITAL_SHARES -> <<"value", "value_dep">>
      [] s = NET_ENROLL -> genders
      [] OTHER -> <<"value">>

\* a source country the concordance table does not map
Unmapped == "zz1"

\* a cell of the raw files: <<table, country, year>>
Cells(s) == Range(Tables(s)) \X (DOMAIN concordance(s)) \X Range(RawYears(s))
UnmappedCells(s) == Range(Tables(s)) \X {Unmapped} \X Range(RawYears(s))

\* the regular raw file: every country reports a value in every year
BaseValue(s, c) ==
    CASE s \in {GDP, CAPITAL} ->
            IF c[2] = "World" THEN Num(10 * (c[3] - 1998)) ELSE Num(c[3] - 1998)
      [] s = CAPITAL_SHARES ->
            IF c[1] = "value_dep" THEN Num(c[3] - 1998)
            ELSE IF c[2] \in {"af1", "la1"} THEN Num(40) ELSE Num(20)
      [] s = NET_ENROLL ->
            (CASE c[2] = "af1" -> Num(60)
               [] c[2] = "af2" -> Num(10)
               [] c[2] = "af3" -> Num(20)
               [] c[2] = "we1" -> Num(50)
               [] OTHER -> Num(40))
      [] OTHER -> Num(1)

\* the groups of rows the cleaners look up: <<table, region, year>>
InputGroups(s) ==
    Product3(Tables(s),
             SelectSeq(AllRegions, LAMBDA r : CountriesOf(s, r) # <<>>),
             RawYears(s))

\* an irregular group: its first p[1] countries report NaN and its next p[2]
\* countries have no row (the countries of a region are interchangeable)
GroupProfiles(s, g, k) ==
    {p \in (0..k) \X (0..k) : p[1] + p[2] <= k /\ p[1] + p[2] <= Len(CountriesOf(s, g[2]))}

\* every way to make at most k cells of the groups gs irregular
RECURSIVE Irregularities(_, _, _)
Irregularities(s, gs, k) ==
    IF gs = <<>> THEN {<<>>}
    ELSE UNION { { <<p>> \o rest : rest \in Irregularities(s, Tail(gs), k - p[1] - p[2]) }
                 : p \in GroupProfiles(s, Head(gs), k) }

Position(seq, x) == CHOOSE i \in DOMAIN seq : seq[i] = x

\* the raw files in which the groups are irregular as ps says, with or
\* without the rows of a country the concordance table does not map
DiskOf(s, ps, unmapped) ==
    LET gs == InputGroups(s)
    IN  [c \in Cells(s) \cup (IF unmapped THEN UnmappedCells(s) ELSE {}) |->
           IF c[2] = Unmapped THEN BaseValue(s, c)
           ELSE LET region == concordance(s)[c[2]]
                    p == ps[Position(gs, <<c[1], region, c[3]>>)]
                    i == Position(CountriesOf(s, region), c[2])
                IN  IF i <= p[1] THEN NaN
                    ELSE IF i <= p[1] + p[2] THEN Absent
                    ELSE BaseValue(s, c)]

\* the raw files of the World Bank, AQUASTAT and UNPD list aggregates and
\* territories the concordance does not map; a regular file of the
\* Wittgenstein Centre lists mapped areas only
RegionalDisks(s, k) ==
    IF s \in {ENERGY_TRADE, CAPITAL_SHARES, NET_ENROLL}
    THEN {DiskOf(s, ps, FALSE) : ps \in Irregularities(s, InputGroups(s), k)}
    ELSE IF s = POP_WIT
    THEN {DiskOf(s, ps, FALSE) : ps \in Irregularities(s, InputGroups(s), k)}
         \cup (IF k = 0 THEN {}
               ELSE {DiskOf(s, ps, TRUE) : ps \in Irregularities(s, InputGroups(s), k - 1)})
    ELSE {DiskOf(s, ps, TRUE) : ps \in Irregularities(s, InputGroups(s), k)}

\* the historical series of a region in the calibration workbook: one
\* per gender
Series(region) == [i \in DOMAIN genders |-> <<region, genders[i]>>]
AllSeries(s) == UNION {Range(Series(regions(s)[i])) : i \in DOMAIN regions(s)}

\* what curve_fit does with a series: it converges, it gives up after maxfev
\* evaluations (RuntimeError), or it rejects the data (ValueError for a
\* series with a NaN)
Converges == "converges"
FitOutcomes == {Converges, "RuntimeError", "ValueError"}

\* the calibration workbooks: every series with any of the outcomes
CalibrationDisks(s) == [AllSeries(s) -> FitOutcomes]

\* the Eurostat tables: hbs_exp (the total, table "exp") and hbs_str (the
\* shares of the categories) with one column per year and country; a cell
\* holds a number or ":" (read as NaN)
eu_countries_raw == {"at", "be"}
EurostatCells == Range(Tables(EUROSTAT)) \X eu_countries_raw \X Range(RawYears(EUROSTAT))
EurostatValue(c) ==
    CASE c[1] = "exp" -> Num(10) [] c[1] = "food" -> Num(1) [] OTHER -> Num(3)
EurostatDisks(k) ==
    {[c \in EurostatCells |-> IF c \in missing THEN NaN ELSE EurostatValue(c)] :
        missing \in {m \in SUBSET EurostatCells : Cardinality(m) <= k}}

\* the raw files a run can meet, at most k cells of them irregular
IrregularDisks(s, k) ==
    CASE s \in CalibrationScripts -> CalibrationDisks(s)
      [] s = EUROSTAT -> EurostatDisks(k)
      [] OTHER -> RegionalDisks(s, k)

-----------------------------------------------------------------------------
(* pandas operations the cleaners are built from *)

\* pd.merge(raw_data, concordance[[country, un_region]]): the rows of the
\* countries the concordance table maps (an inner join)
raw_data_merge(s, raw) ==
    [c \in {k \in DOMAIN raw : k[2] \in DOMAIN concordance_loaded} |-> raw[c]]

\* the rows of one group of groupby([un_region, (variable,) year]); an empty
\* result stands for the KeyError get_group raises
get_group(s, merged, tab, region, year) ==
    [c \in {k \in DOMAIN merged :
               k[1] = tab /\ concordance_loaded[k[2]] = region /\ k[3] = year}
       |-> merged[c]]

\* np.unique(raw_data_merge["year"])
years_of(merged) == unique({c[3] : c \in DOMAIN merged})

Entry(region, item, year, value) ==
    [region |-> region, item |-> item, year |-> year, value |-> value]

Result(err, table) == [err |-> err, table |-> table]

\* DataFrame.astype({"year": "int"}): KeyError when the frame has no rows and
\* so no column "year"
astype_year(table) ==
    IF table = <<>> THEN Result("KeyError", <<>>) ELSE Result(NoException, table)

\* the regions' values of a cleaned table multiplied by a factor
RECURSIVE scale(_, _)
scale(entries, sf) ==
    IF entries = <<>> THEN <<>>
    ELSE <<[Head(entries) EXCEPT !.value = Mul(@, sf)]>> \o scale(Tail(entries), sf)

\* the column "value" of a list of entries
RECURSIVE values(_)
values(entries) ==
    IF entries = <<>> THEN <<>> ELSE <<Head(entries).value>> \o values(Tail(entries))

-----------------------------------------------------------------------------
(* gdp_aggregation.py: data_cleaning_world_bank *)

\* the share of countries without a value (in percent) under which a region's
\* year is kept: 0.2, and 0.3 for LAC and AsiaPacific in capital_activities
threshlod_nan(s, region) ==
    IF s = CAPITAL /\ region \in {"LAC", "AsiaPacific"} THEN 30 ELSE 20

\* isna().sum() < len(group) * threshold
enough_countries(s, region, g) == isna_sum(g) * 100 < len(g) * threshlod_nan(s, region)

\* the loop over the regions for one year, from region i on.  acc.regional is
\* cleaned_data_, acc.glb the World entries already concatenated to
\* cleaned_data, acc.broke whether the loop was left by break.
RECURSIVE gdp_regions(_, _, _, _)
\* the regions' loop with the KeyError of get_group caught and the region
\* skipped, as water_withdrawal_by_sector does
gdp_regions_skipping(merged, year, i, acc) ==
    IF i > Len(regions(GDP)) THEN acc
    ELSE LET region == regions(GDP)[i]
             g == get_group(GDP, merged, "value", region, year)
             entry == Entry(region, "value", year, sum(g))
         IN  IF len(g) = 0 THEN gdp_regions(merged, year, i + 1, acc)
             ELSE IF region # "World"
             THEN IF enough_countries(GDP, region, g)
                  THEN gdp_regions(merged, year, i + 1,
                                   [acc EXCEPT !.regional = Append(@, entry)])
                  ELSE [acc EXCEPT !.regional = <<>>, !.broke = TRUE]
             ELSE gdp_regions(merged, year, i + 1,
                              [acc EXCEPT !.glb = Append(@, entry)])

\* the regions' loop leaving out only the region under the threshold and
\* going on with the next (continue in the place of break)
gdp_regions_continuing(merged, year, i, acc) ==
    IF i > Len(regions(GDP)) THEN acc
    ELSE LET region == regions(GDP)[i]
             g == get_group(GDP, merged, "value", region, year)
             entry == Entry(region, "value", year, sum(g))
         IN  IF len(g) = 0 THEN [acc EXCEPT !.err = "KeyError"]
             ELSE IF region # "World"
             THEN IF enough_countries(GDP, region, g)
                  THEN gdp_regions(merged, year, i + 1,
                                   [acc EXCEPT !.regional = Append(@, entry)])
                  ELSE gdp_regions(merged, year, i + 1, acc)
             ELSE gdp_regions(merged, year, i + 1,
                              [acc EXCEPT !.glb = Append(@, entry)])

gdp_regions(merged, year, i, acc) ==
    IF i > Len(regions(GDP)) THEN acc
    ELSE LET region == regions(GDP)[i]
             g == get_group(GDP, merged, "value", region, year)
             entry == Entry(region, "value", year, sum(g))
         IN  IF len(g) = 0 THEN [acc EXCEPT !.err = "KeyError"]
             ELSE IF region # "World"
             THEN IF enough_countries(GDP, region, g)
                  THEN gdp_regions(merged, year, i + 1,
                                   [acc EXCEPT !.regional = Append(@, entry)])
                  ELSE [acc EXCEPT !.regional = <<>>, !.broke = TRUE]
             ELSE gdp_regions(merged, year, i + 1,
                              [acc EXCEPT !.glb = Append(@, entry)])

\* the first row of the group (World, year): raw_global.iloc[0, index_value]
iloc0(g) == g[CHOOSE k \in DOMAIN g : TRUE]

\* one year of the cleaner: the regions' loop, then the balancing of the
\* regions' values to the raw World value
gdp_year(merged, year) ==
    LET acc == gdp_regions(merged, year, 1,
                   [err |-> NoException, regional |-> <<>>, glb |-> <<>>, broke |-> FALSE])
        raw_global == get_group(GDP, merged, "value", "World", year)
        sf == Div(iloc0(raw_global), SumSeq(values(acc.regional)))
    IN  IF acc.err # NoException THEN Result(acc.err, <<>>)
        ELSE IF acc.regional = <<>> THEN Result(NoException, acc.glb)
        ELSE IF len(raw_global) = 0 THEN Result("KeyError", <<>>)
        ELSE Result(NoException, acc.glb \o scale(acc.regional, sf))

RECURSIVE gdp_years(_, _, _)
gdp_years(merged, years, cleaned) ==
    IF years = <<>> THEN Result(NoException, cleaned)
    ELSE LET r == gdp_year(merged, Head(years))
         IN  IF r.err # NoException THEN r
             ELSE gdp_years(merged, Tail(years), cleaned \o r.table)

gdp_data_cleaning_world_bank(raw) ==
    LET merged == raw_data_merge(GDP, raw)
        r == gdp_years(merged, years_of(merged), <<>>)
    IN  IF r.err # NoException THEN r ELSE astype_year(r.table)

-----------------------------------------------------------------------------
(* capital_activities.py: data_cleaning_world_bank *)

RECURSIVE capital_regions(_, _, _, _)
capital_regions(merged, year, i, acc) ==
    IF i > Len(regions(CAPITAL)) THEN acc
    ELSE LET region == regions(CAPITAL)[i]
             g == get_group(CAPITAL, merged, "value", region, year)
             entry == Entry(region, "value", year, sum(g))
         IN  IF len(g) = 0 THEN [acc EXCEPT !.err = "KeyError"]
             ELSE IF region # "World" /\ enough_countries(CAPITAL, region, g)
             THEN capital_regions(merged, year, i + 1,
                                  [acc EXCEPT !.regional = Append(@, entry)])
             ELSE capital_regions(merged, year, i + 1, acc)

\* the number of regional values a year needs for a World value
NumFelixRegions == 5

\* the year's entries with a World entry as soon as four regions have one
capital_year_four_regions(merged, year) ==
    LET acc == capital_regions(merged, year, 1,
                   [err |-> NoException, regional |-> <<>>])
        last == regions(CAPITAL)[Len(regions(CAPITAL))]
        entry_glb == Entry(last, "value", year, SumSeq(values(acc.regional)))
    IN  IF acc.err # NoException THEN Result(acc.err, <<>>)
        ELSE IF Len(acc.regional) >= NumFelixRegions - 1
        THEN Result(NoException, Append(acc.regional, entry_glb))
        ELSE Result(NoException, acc.regional)

capital_year(merged, year) ==
    LET acc == capital_regions(merged, year, 1,
                   [err |-> NoException, regional |-> <<>>])
        last == regions(CAPITAL)[Len(regions(CAPITAL))]
        entry_glb == Entry(last, "value", year, SumSeq(values(acc.regional)))
    IN  IF acc.err # NoException THEN Result(acc.err, <<>>)
        ELSE IF Len(acc.regional) = NumFelixRegions
        THEN Result(NoException, Append(acc.regional, entry_glb))
        ELSE Result(NoException, acc.regional)

RECURSIVE capital_years(_, _, _)
capital_years(merged, years, cleaned) ==
    IF years = <<>> THEN Result(NoException, cleaned)
    ELSE LET r == capital_year(merged, Head(years))
         IN  IF r.err # NoException THEN r
             ELSE capital_years(merged, Tail(years), cleaned \o r.table)

capital_data_cleaning_world_bank(raw) ==
    LET merged == raw_data_merge(CAPITAL, raw)
        r == capital_years(merged, years_of(merged), <<>>)
    IN  IF r.err # NoException THEN r ELSE astype_year(r.table)

-----------------------------------------------------------------------------
(* water_withdrawal_by_sector.py: data_cleaning *)

\* one entry per key whose group exists; a missing group (KeyError) is skipped
RECURSIVE water_entries(_, _)
water_entries(merged, keys) ==
    IF keys = <<>> THEN <<>>
    ELSE LET k == Head(keys)
             g == get_group(WATER, merged, k[2], k[1], k[3])
         IN  IF len(g) = 0 THEN water_entries(merged, Tail(keys))
             ELSE <<Entry(k[1], k[2], k[3], sum(g))>> \o water_entries(merged, Tail(keys))

water_data_cleaning(raw) ==
    LET merged == raw_data_merge(WATER, raw)
        water_withd_sectors == unique_sectors({c[1] : c \in DOMAIN merged})
    IN  Result(NoException,
               water_entries(merged,
                   Product3(regions(WATER), water_withd_sectors, years_of(merged))))

-----------------------------------------------------------------------------
(* data_restructure *)

\* range(1900, 2101)
FirstYear == 1900
StopYear == 2101

\* range(1900, 2100): the last year left out
YearColumnsWithoutLast == FirstYear..(StopYear - 2)

YearColumns == FirstYear..(StopYear - 1)

\* np.unique(cleaned_data["year"])
year_avail(cleaned) == {cleaned[i].year : i \in DOMAIN cleaned}

\* cleaned_data.groupby([region, (item,) year]).get_group(key): the entries
\* of the key in table order; empty stands for KeyError
cleaned_group(cleaned, region, item, year) ==
    SelectSeq(cleaned, LAMBDA e : e.region = region /\ e.item = item /\ e.year = year)

\* cleaned_data.groupby([region, sex, age]).get_group(key)
cleaned_group_any(cleaned, region, item) ==
    SelectSeq(cleaned, LAMBDA e : e.region = region /\ e.item = item)

Row(parameter, cols) == [parameter |-> parameter, cols |-> cols]

\* gdp_aggregation.py: an absent (region, year) of an available year raises
gdp_data_restructure(cleaned) ==
    LET avail == year_avail(cleaned)
    IN  IF cleaned = <<>> THEN Result("KeyError", <<>>)
        ELSE IF \E i \in DOMAIN regions(GDP) : \E y \in YearColumns \cap avail :
                    cleaned_group(cleaned, regions(GDP)[i], "value", y) = <<>>
        THEN Result("KeyError", <<>>)
        ELSE Result(NoException,
               [i \in DOMAIN regions(GDP) |->
                  Row(<<"Gross World Product in 2015 USD", regions(GDP)[i]>>,
                      [y \in YearColumns |->
                         IF y \in avail
                         THEN cleaned_group(cleaned, regions(GDP)[i], "value", y)[1].value
                         ELSE Blank])])

\* capital_activities.py: an absent (region, year) is caught and left blank
capital_data_restructure(cleaned) ==
    LET avail == year_avail(cleaned)
    IN  IF cleaned = <<>> THEN Result("KeyError", <<>>)
        ELSE Result(NoException,
               [i \in DOMAIN regions(CAPITAL) |->
                  Row(<<"Capital Depreciation", regions(CAPITAL)[i]>>,
                      [y \in YearColumns |->
                         IF y \in avail
                         THEN LET data_by_all ==
                                      cleaned_group(cleaned, regions(CAPITAL)[i], "value", y)
                              IN  IF data_by_all # <<>> THEN data_by_all[1].value ELSE Blank
                         ELSE Blank])])

\* water_withdrawal_by_sector.py: the value is multiplied by 10**9; an absent
\* (region, sector, year) is caught and left NaN
UnitFactor == 1000000000

water_data_restructure(cleaned) ==
    LET water_withd_sectors == unique_sectors({cleaned[i].item : i \in DOMAIN cleaned})
        years == year_avail(cleaned)
        keys == Product2(regions(WATER), water_withd_sectors)
    IN  IF cleaned = <<>> THEN Result("KeyError", <<>>)
        ELSE Result(NoException,
               [i \in DOMAIN keys |->
                  Row(<<keys[i][2], keys[i][1]>>,
                      [y \in YearColumns |->
                         IF y \in years
                         THEN LET cleaned_water ==
                                      cleaned_group(cleaned, keys[i][1], keys[i][2], y)
                              IN  IF cleaned_water # <<>>
                                  THEN Mul(cleaned_water[1].value, Num(UnitFactor))
                                  ELSE NaN
                         ELSE NaN])])

-----------------------------------------------------------------------------
(* energy_trade.py *)

\* str.lower() of a column label
lower(label) ==
    CASE label = "Exports" -> "exports"
      [] label = "Imports" -> "imports"
      [] OTHER -> label

\* raw_data.columns = raw_data.columns.str.lower(): the table the caller
\* passed gets the lower-case labels
columns_str_lower(raw) ==
    [c \in {<<lower(k[1]), k[2], k[3]>> : k \in DOMAIN raw} |->
        raw[CHOOSE k \in DOMAIN raw : <<lower(k[1]), k[2], k[3]>> = c]]

\* raw_data.groupby(["region", "year"]).get_group(key), the column
\* "exports"; the region of a row is the folder its file was read from
energy_trade_group(raw, region, year) ==
    [c \in {k \in DOMAIN raw : /\ k[1] = "exports"
                               /\ concordance(ENERGY_TRADE)[k[2]] = region
                               /\ k[3] = year} |-> raw[c]]

\* the loops over regions and years: an absent group is skipped, the value
\* is the negative of the exports
RECURSIVE energy_trade_entries(_, _)
energy_trade_entries(raw, keys) ==
    IF keys = <<>> THEN <<>>
    ELSE LET k == Head(keys)
             g == energy_trade_group(raw, k[1], k[2])
         IN  IF len(g) = 0 THEN energy_trade_entries(raw, Tail(keys))
             ELSE <<Entry(k[1], "oil", k[2], Mul(Num(-1), sum(g)))>>
                      \o energy_trade_entries(raw, Tail(keys))

\* data_cleaning(raw_fact) of energy_trade.py
energy_trade_data_cleaning(raw) ==
    LET lowered == columns_str_lower(raw)
    IN  Result(NoException,
               energy_trade_entries(lowered,
                   Product2(regions(ENERGY_TRADE), years_of(lowered))))

\* data_restructure(cleaned_fact) of energy_trade.py: an absent
\* (region, year) is caught and left NaN
energy_trade_data_restructure(cleaned) ==
    LET years == year_avail(cleaned)
    IN  IF cleaned = <<>> THEN Result("KeyError", <<>>)
        ELSE Result(NoException,
               [i \in DOMAIN regions(ENERGY_TRADE) |->
                  Row(<<"Oil Net Export", regions(ENERGY_TRADE)[i]>>,
                      [y \in YearColumns |->
                         IF y \in years
                         THEN LET cleaned_fact ==
                                      cleaned_group(cleaned, regions(ENERGY_TRADE)[i], "oil", y)
                              IN  IF cleaned_fact # <<>> THEN cleaned_fact[1].value ELSE NaN
                         ELSE NaN])])

-----------------------------------------------------------------------------
(* elect_loss_rate.py *)

\* pd.merge(raw_data_region_year, raw_data_region_year_dep, on="country")
\* .dropna(): the countries with a number in both groups
merge_dropna(g, g_dep) ==
    {c \in {k[2] : k \in DOMAIN g} \cap {k[2] : k \in DOMAIN g_dep} :
        \A k \in DOMAIN g \cup DOMAIN g_dep : k[2] = c => IsNum((g @@ g_dep)[k])}

\* (loss_rate * elect_output).sum() / elect_output.sum() / 100
RECURSIVE weighted_sum(_, _, _)
weighted_sum(g, g_dep, cs) ==
    IF cs = {} THEN Num(0)
    ELSE LET c == CHOOSE x \in cs : TRUE
             l == g[CHOOSE k \in DOMAIN g : k[2] = c]
             e == g_dep[CHOOSE k \in DOMAIN g_dep : k[2] = c]
         IN  RatAdd(RatMul(l, e), weighted_sum(g, g_dep, cs \ {c}))

loss_rate(g, g_dep) ==
    LET cs == merge_dropna(g, g_dep)
        output == [k \in {x \in DOMAIN g_dep : x[2] \in cs} |-> g_dep[k]]
    IN  Div(Div(weighted_sum(g, g_dep, cs), sum(output)), Num(100))

\* the loops over years and regions: a (region, year) without rows in the
\* raw or in the dependent data is skipped
RECURSIVE elect_entries(_, _)
elect_entries(merged, keys) ==
    IF keys = <<>> THEN <<>>
    ELSE LET k == Head(keys)
             g == get_group(ELECT, merged, "loss_rate", k[2], k[1])
             g_dep == get_group(ELECT, merged, "elect_output", k[2], k[1])
         IN  IF len(g) = 0 \/ len(g_dep) = 0 THEN elect_entries(merged, Tail(keys))
             ELSE <<Entry(k[2], "value", k[1], loss_rate(g, g_dep))>>
                      \o elect_entries(merged, Tail(keys))

\* data_cleaning_world_bank of elect_loss_rate.py
elect_data_cleaning_world_bank(raw) ==
    LET merged == raw_data_merge(ELECT, raw)
        years == unique({c[3] : c \in {k \in DOMAIN merged : k[1] = "loss_rate"}})
    IN  astype_year(elect_entries(merged, Product2(years, regions(ELECT))))

\* data_restructure of elect_loss_rate.py: the lookup of a (region, year)
\* of an available year is not guarded
elect_data_restructure(cleaned) ==
    LET avail == year_avail(cleaned)
    IN  IF cleaned = <<>> THEN Result("KeyError", <<>>)
        ELSE IF \E i \in DOMAIN regions(ELECT) : \E y \in YearColumns \cap avail :
                    cleaned_group(cleaned, regions(ELECT)[i], "value", y) = <<>>
        THEN Result("KeyError", <<>>)
        ELSE Result(NoException,
               [i \in DOMAIN regions(ELECT) |->
                  Row(<<"Electric transmission loss rate", regions(ELECT)[i]>>,
                      [y \in YearColumns |->
                         IF y \in avail
                         THEN cleaned_group(cleaned, regions(ELECT)[i], "value", y)[1].value
                         ELSE Blank])])

-----------------------------------------------------------------------------
(* capital_activity_shares.py *)

\* pd.merge(raw_data_region_year, raw_data_region_year_dep, on="location"):
\* the countries with a row in both groups
merge_location(g, g_dep) == {k[2] : k \in DOMAIN g} \cap {k[2] : k \in DOMAIN g_dep}

\* the rows of a group that belong to the countries cs
rows_of(g, cs) == [k \in {x \in DOMAIN g : x[2] \in cs} |-> g[k]]

ShareEntry(region, year, value_dep, value) ==
    [region |-> region, item |-> "value", year |-> year, value |-> value,
     value_dep |-> value_dep]

\* the entry of a region and year: value_dep is summed over the merged rows,
\* value is the mean of the rows without NaN weighted by value_dep, / 100
shares_entry(g, g_dep, region, year) ==
    LET nonana == merge_dropna(g, g_dep)
    IN  ShareEntry(region, year, sum(rows_of(g_dep, merge_location(g, g_dep))),
            Div(Div(weighted_sum(g, g_dep, nonana), sum(rows_of(g_dep, nonana))),
                Num(100)))

\* the loop over the regions for one year, from region i on; acc.regional is
\* cleaned_data_
RECURSIVE shares_regions(_, _, _, _)
shares_regions(merged, year, i, acc) ==
    IF i > Len(regions(CAPITAL_SHARES)) THEN acc
    ELSE LET region == regions(CAPITAL_SHARES)[i]
             g == get_group(CAPITAL_SHARES, merged, "value", region, year)
             g_dep == get_group(CAPITAL_SHARES, merged, "value_dep", region, year)
             merge == rows_of(g_dep, merge_location(g, g_dep))
         IN  IF len(g) = 0 \/ len(g_dep) = 0 THEN [acc EXCEPT !.err = "KeyError"]
             ELSE IF region # "World" /\ enough_countries(CAPITAL_SHARES, region, merge)
             THEN shares_regions(merged, year, i + 1,
                      [acc EXCEPT !.regional = Append(@, shares_entry(g, g_dep, region, year))])
             ELSE shares_regions(merged, year, i + 1, acc)

\* cleaned_data_["value_dep"] * cleaned_data_["value"]
RECURSIVE weighted_values(_)
weighted_values(entries) ==
    IF entries = <<>> THEN <<>>
    ELSE <<Mul(Head(entries).value_dep, Head(entries).value)>> \o weighted_values(Tail(entries))

RECURSIVE values_dep(_)
values_dep(entries) ==
    IF entries = <<>> THEN <<>>
    ELSE <<Head(entries).value_dep>> \o values_dep(Tail(entries))

\* entry_glb: the World entry made of the entries of cleaned_data_
shares_entry_glb(regional, year) ==
    ShareEntry(regions(CAPITAL_SHARES)[Len(regions(CAPITAL_SHARES))], year,
        SumSeq(values_dep(regional)),
        Div(SumSeq(weighted_values(regional)), SumSeq(values_dep(regional))))

shares_year(merged, year) ==
    LET acc == shares_regions(merged, year, 1, [err |-> NoException, regional |-> <<>>])
    IN  IF acc.err # NoException THEN Result(acc.err, <<>>)
        ELSE IF Len(acc.regional) = NumFelixRegions
        THEN Result(NoException, Append(acc.regional, shares_entry_glb(acc.regional, year)))
        ELSE Result(NoException, acc.regional)

RECURSIVE shares_years(_, _, _)
shares_years(merged, years, cleaned) ==
    IF years = <<>> THEN Result(NoException, cleaned)
    ELSE LET r == shares_year(merged, Head(years))
         IN  IF r.err # NoException THEN r
             ELSE shares_years(merged, Tail(years), cleaned \o r.table)

\* data_cleaning_world_bank of capital_activity_shares.py
shares_data_cleaning_world_bank(raw) ==
    LET merged == raw_data_merge(CAPITAL_SHARES, raw)
        years == unique({c[3] : c \in {k \in DOMAIN merged : k[1] = "value"}})
        r == shares_years(merged, years, <<>>)
    IN  IF r.err # NoException THEN r ELSE astype_year(r.table)

\* data_restructure of capital_activity_shares.py: two rows per region, an
\* absent (region, year) is caught and left blank
shares_data_restructure(cleaned) ==
    LET avail == year_avail(cleaned)
        cell(region, y, dep) ==
            LET data_by_all == cleaned_group(cleaned, region, "value", y)
            IN  IF y \notin avail \/ data_by_all = <<>> THEN Blank
                ELSE IF dep THEN data_by_all[1].value_dep ELSE data_by_all[1].value
    IN  IF cleaned = <<>> THEN Result("KeyError", <<>>)
        ELSE Result(NoException,
               [j \in 1..(2 * Len(regions(CAPITAL_SHARES))) |->
                  LET region == regions(CAPITAL_SHARES)[(j + 1) \div 2]
                  IN  IF j % 2 = 1
                      THEN Row(<<"Share of Gross Fixed Capital Formation in GDP", region>>,
                               [y \in YearColumns |-> cell(region, y, FALSE)])
                      ELSE Row(<<"GDP in currency US$", region>>,
                               [y \in YearColumns |-> cell(region, y, TRUE)])])

-----------------------------------------------------------------------------
(* net_enroll_primary.py *)

\* a <= b for two numbers
RatLeq(a, b) == a[1] * b[2] <= b[1] * a[2]

\* the values of a group in ascending order
RECURSIVE sorted_values(_)
sorted_values(g) ==
    IF DOMAIN g = {} THEN <<>>
    ELSE LET k == CHOOSE x \in DOMAIN g : \A y \in DOMAIN g : RatLeq(g[x], g[y])
         IN  <<g[k]>> \o sorted_values([c \in DOMAIN g \ {k} |-> g[c]])

\* Series.mean() of a group without NaN
mean(g) == RatDiv(sum(g), Num(len(g)))

\* Series.median() of a group without NaN: the middle value, or the mean of
\* the two middle values
median(g) ==
    LET vs == sorted_values(g)
        n == Len(vs)
    IN  IF n % 2 = 1 THEN vs[(n + 1) \div 2]
        ELSE RatDiv(RatAdd(vs[n \div 2], vs[n \div 2 + 1]), Num(2))

\* raw_data_year.dropna(subset=[variable])
dropna(g) == [c \in {k \in DOMAIN g : ~isna(g[k])} |-> g[c]]

EnrollEntry(region, sex, year, value, whether_world_average) ==
    [region |-> region, item |-> sex, year |-> year, value |-> value,
     whether_world_average |-> whether_world_average]

\* the loop over the regions for one year and sex, from region i on
RECURSIVE enroll_regions(_, _, _, _, _)
enroll_regions(merged, raw_global, year, sex, i) ==
    IF i > Len(regions(NET_ENROLL)) THEN Result(NoException, <<>>)
    ELSE LET region == regions(NET_ENROLL)[i]
             raw_data_year == get_group(NET_ENROLL, merged, sex, region, year)
             available == dropna(raw_data_year)
             entry == IF len(available) # 0
                      THEN EnrollEntry(region, sex, year,
                                       Div(median(available), Num(100)), FALSE)
                      ELSE EnrollEntry(region, sex, year, Div(raw_global, Num(100)), TRUE)
             rest == enroll_regions(merged, raw_global, year, sex, i + 1)
         IN  IF len(raw_data_year) = 0 THEN Result("KeyError", <<>>)
             ELSE IF rest.err # NoException THEN rest
             ELSE Result(NoException, <<entry>> \o rest.table)

\* the loops over the years and the genders: the World value is looked up
\* first and the regions are visited only when it is a number
RECURSIVE enroll_entries(_, _)
enroll_entries(merged, keys) ==
    IF keys = <<>> THEN Result(NoException, <<>>)
    ELSE LET year == Head(keys)[1]
             sex == Head(keys)[2]
             world == get_group(NET_ENROLL, merged, sex, "World", year)
             raw_global == world[CHOOSE k \in DOMAIN world : TRUE]
             r == IF isna(raw_global) THEN Result(NoException, <<>>)
                  ELSE enroll_regions(merged, raw_global, year, sex, 1)
             rest == enroll_entries(merged, Tail(keys))
         IN  IF len(world) = 0 THEN Result("KeyError", <<>>)
             ELSE IF r.err # NoException THEN r
             ELSE IF rest.err # NoException THEN rest
             ELSE Result(NoException, r.table \o rest.table)

\* data_cleaning_world_bank of net_enroll_primary.py
enroll_data_cleaning_world_bank(raw) ==
    LET merged == raw_data_merge(NET_ENROLL, raw)
        r == enroll_entries(merged, Product2(years_of(merged), genders))
    IN  IF r.err # NoException THEN r ELSE astype_year(r.table)

\* data_restructure of net_enroll_primary.py: the lookup of a (region, sex,
\* year) of an available year is not guarded
enroll_data_restructure(cleaned) ==
    LET avail == year_avail(cleaned)
        keys == Product2(regions(NET_ENROLL), genders)
    IN  IF cleaned = <<>> THEN Result("KeyError", <<>>)
        ELSE IF \E i \in DOMAIN keys : \E y \in YearColumns \cap avail :
                    cleaned_group(cleaned, keys[i][1], keys[i][2], y) = <<>>
        THEN Result("KeyError", <<>>)
        ELSE Result(NoException,
               [i \in DOMAIN keys |->
                  Row(<<"enrollment", keys[i][1], keys[i][2]>>,
                      [y \in YearColumns |->
                         IF y \in avail
                         THEN cleaned_group(cleaned, keys[i][1], keys[i][2], y)[1].value
                         ELSE Blank])])

-----------------------------------------------------------------------------
(* population_aggregation_worldbank.py *)

\* range(1960, 2030): the raw columns that are summed
FirstRawColumn == 1960
StopRawColumn == 2030

\* the regions the merged raw rows belong to, as groupby sorts them
regions_present(s, merged) ==
    SelectSeq(AllRegions, LAMBDA r : \E c \in DOMAIN merged : concordance_loaded[c[2]] = r)

\* data_restructure: one row per region of the raw table, one column per raw
\* column that is a year of 1960..2029, holding the sum of the region's rows
worldbank_data_restructure(raw) ==
    LET merged == raw_data_merge(POP_WB, raw)
        present == regions_present(POP_WB, merged)
        columns == {y \in Range(RawYears(POP_WB)) :
                       y \in FirstRawColumn..(StopRawColumn - 1)}
    IN  Result(NoException,
           [i \in DOMAIN present |->
              Row(<<"Population", present[i]>>,
                  [y \in columns |-> sum(get_group(POP_WB, merged, "value", present[i], y))])])

-----------------------------------------------------------------------------
(* population_aggregation_wit.py *)

\* Series.astype(int): the integer part
astype_int(v) == IF IsNum(v) THEN Num(v[1] \div v[2]) ELSE v

\* thousand persons to persons
Thousand == 1000

RECURSIVE wit_entries(_, _)
wit_entries(merged, keys) ==
    IF keys = <<>> THEN <<>>
    ELSE LET k == Head(keys)
             g == get_group(POP_WIT, merged, k[1], k[3], k[2])
         IN  IF len(g) = 0 THEN wit_entries(merged, Tail(keys))
             ELSE <<Entry(k[3], k[1], k[2], astype_int(Mul(sum(g), Num(Thousand))))>>
                      \o wit_entries(merged, Tail(keys))

\* data_aggregation: ValueError when an area of the raw table is not in the
\* concordance; else the sum of every (year, age, region) of the raw table,
\* sorted by age cohort
wit_data_aggregation(raw) ==
    LET merged == raw_data_merge(POP_WIT, raw)
        missing_regions == {c[2] : c \in DOMAIN raw} \ {c[2] : c \in DOMAIN merged}
    IN  IF missing_regions # {} THEN Result("ValueError", <<>>)
        ELSE Result(NoException,
                wit_entries(merged,
                    Product3(age_cohorts, years_of(merged), regions_present(POP_WIT, merged))))

\* range(1900, 2021)
WitStopYear == 2021

\* data_restructure: one row per region of the cleaned table and age cohort
\* of the list, one column per year 1900..2020, None where there is no fact
wit_data_restructure(cleaned) ==
    LET present == SelectSeq(AllRegions, LAMBDA r : \E i \in DOMAIN cleaned : cleaned[i].region = r)
        keys == Product2(present, age_cohorts)
    IN  IF cleaned = <<>> THEN Result("KeyError", <<>>)
        ELSE Result(NoException,
               [i \in DOMAIN keys |->
                  Row(<<keys[i][2], keys[i][1]>>,
                      [y \in FirstYear..(WitStopYear - 1) |->
                         LET facts == cleaned_group(cleaned, keys[i][1], keys[i][2], y)
                         IN  IF facts # <<>> THEN facts[1].value ELSE None])])

-----------------------------------------------------------------------------
(* population_aggregation.py *)

\* age.replace("--", "-")
age_label(age) == IF age = "0--4" THEN "0-4" ELSE age

\* the rows of one group of groupby([un_region, sex, Year])
get_group_sex(merged, region, sex, year) ==
    [c \in {k \in DOMAIN merged :
               k[1][1] = sex /\ concordance_loaded[k[2]] = region /\ k[3] = year}
       |-> merged[c]]

\* data_cleaning_unpd: KeyError for a (region, sex, year) without rows,
\* IndexError for an age cohort without rows in such a group
RECURSIVE unpd_entries(_, _, _)
unpd_entries(merged, keys, cleaned) ==
    IF keys = <<>> THEN Result(NoException, cleaned)
    ELSE LET k == Head(keys)
             raw_data_region_year == get_group_sex(merged, k[1], k[2], k[3])
             by_age == [i \in DOMAIN age_cohorts |->
                          [c \in {x \in DOMAIN raw_data_region_year :
                                     x[1][2] = age_label(age_cohorts[i])}
                             |-> raw_data_region_year[c]]]
             entries == [i \in DOMAIN age_cohorts |->
                           Entry(k[1], <<k[2], age_label(age_cohorts[i])>>, k[3], sum(by_age[i]))]
         IN  IF len(raw_data_region_year) = 0 THEN Result("KeyError", <<>>)
             ELSE IF \E i \in DOMAIN age_cohorts : len(by_age[i]) = 0
             THEN Result("IndexError", <<>>)
             ELSE unpd_entries(merged, Tail(keys), cleaned \o entries)

data_cleaning_unpd(raw) ==
    LET merged == raw_data_merge(POP, raw)
        r == unpd_entries(merged, Product3(regions(POP), genders, years_of(merged)), <<>>)
    IN  IF r.err # NoException THEN r ELSE astype_year(r.table)

\* million persons to persons; the projections used are those after 2020
Million == 1000000
LastEstimateYear == 2020

\* data_cleaning_iiasa: KeyError for a (region, variable) without rows
RECURSIVE iiasa_entries(_, _, _)
iiasa_entries(merged, keys, cleaned) ==
    IF keys = <<>> THEN Result(NoException, cleaned)
    ELSE LET k == Head(keys)
             columns == SelectSeq(IiasaYears, LAMBDA y : y > LastEstimateYear)
             rows == {c \in DOMAIN merged : c[1] = k[2] /\ concordance_loaded[c[2]] = k[1]}
             entries == [i \in DOMAIN columns |->
                           Entry(k[1], k[2], columns[i],
                                 Mul(sum([c \in {x \in rows : x[3] = columns[i]} |-> merged[c]]),
                                     Num(Million)))]
         IN  IF rows = {} THEN Result("KeyError", <<>>)
             ELSE iiasa_entries(merged, Tail(keys), cleaned \o entries)

data_cleaning_iiasa(raw) ==
    LET merged == raw_data_merge(POP, raw)
        variables == SelectSeq(Tables(POP), LAMBDA v : \E c \in DOMAIN merged : c[1] = v)
    IN  iiasa_entries(merged, Product2(regions(POP), variables), <<>>)

\* the estimates kept beside the projections
LastUnpdYear == 2022

\* the sum of the cleaned values of the entries e with test(e)
sum_where(cleaned, test(_)) == SumSeq(values(SelectSeq(cleaned, test)))

\* data_restructure of population_aggregation.py: the totals by region, then
\* by region and sex (a missing (region, year) of an available year is a
\* KeyError), then the cohorts: a cohort without rows is a KeyError, a cohort
\* without a value for an available year is printed and the run exits
population_data_restructure(cleaned) ==
    LET avail == year_avail(cleaned)
        by_region == regions(POP)
        by_sex == Product2(regions(POP), genders)
        by_all == Product3(regions(POP), genders, age_cohorts)
        has(test(_)) == \E i \in DOMAIN cleaned : test(cleaned[i])
        cell(y, test(_)) ==
            IF y \in avail
            THEN sum_where(cleaned, LAMBDA e : e.year = y /\ test(e))
            ELSE Blank
        cohort(k) == cleaned_group_any(cleaned, k[1], <<k[2], age_label(k[3])>>)
        first_bad == SetMin({i \in DOMAIN by_all :
                        \/ cohort(by_all[i]) = <<>>
                        \/ \E y \in avail : \A j \in DOMAIN cohort(by_all[i]) :
                               cohort(by_all[i])[j].year # y})
    IN  IF cleaned = <<>> THEN Result("KeyError", <<>>)
        ELSE IF \E i \in DOMAIN by_region : \E y \in avail :
                   ~has(LAMBDA e : e.region = by_region[i] /\ e.year = y)
        THEN Result("KeyError", <<>>)
        ELSE IF \E i \in DOMAIN by_sex : \E y \in avail :
                   ~has(LAMBDA e : e.region = by_sex[i][1] /\ e.item[1] = by_sex[i][2] /\ e.year = y)
        THEN Result("KeyError", <<>>)
        ELSE IF \E i \in DOMAIN by_all :
                   \/ cohort(by_all[i]) = <<>>
                   \/ \E y \in avail : \A j \in DOMAIN cohort(by_all[i]) :
                          cohort(by_all[i])[j].year # y
        THEN IF cohort(by_all[first_bad]) = <<>>
             THEN Result("KeyError", <<>>)
             ELSE Result("exit", <<>>)
        ELSE Result(NoException,
               [i \in DOMAIN by_region |->
                  Row(<<"Population", by_region[i]>>,
                      [y \in YearColumns |->
                         cell(y, LAMBDA e : e.region = by_region[i])])]
               \o
               [i \in DOMAIN by_sex |->
                  Row(<<"Population by Gender", by_sex[i]>>,
                      [y \in YearColumns |->
                         cell(y, LAMBDA e : e.region = by_sex[i][1] /\ e.item[1] = by_sex[i][2])])]
               \o
               [i \in DOMAIN by_all |->
                  Row(<<"Population Cohorts", by_all[i]>>,
                      [y \in YearColumns |->
                         IF y \in avail
                         THEN cleaned_group(cleaned, by_all[i][1],
                                            <<by_all[i][2], age_label(by_all[i][3])>>, y)[1].value
                         ELSE Blank])])

-----------------------------------------------------------------------------
(* mortality_fraction.py and total_fertility.py *)

\* the parameters of logistic_functions after x, which curve_fit estimates:
\* one logistic curve in mortality_fraction, the product of two (GDP per
\* capita and mean years of schooling) in total_fertility
logistic_functions(s) ==
    IF s = TFR
    THEN <<"L0_gdp", "L_gdp", "k_gdp", "x0_gdp", "L0_mys", "L_mys", "k_mys", "x0_mys">>
    ELSE <<"L0", "L", "k", "x0">>

\* n_par of a fit that converged: one estimate per parameter, each named
\* after the series it was fitted to
curve_fit(s, series) ==
    [j \in DOMAIN logistic_functions(s) |-> <<series, logistic_functions(s)[j]>>]

\* n_par before the first assignment
Unbound == <<>>

\* r2_score of a series against the curve of the parameters n_par
r2_score(series, n_par) == <<series, n_par>>

\* columns=cal_params + ["r2"]
cal_columns_without_r2(cal_params) == cal_params

cal_columns(cal_params) == cal_params \o <<"r2">>

\* the names the estimates are stored under
stored_under(s, cal_params) == IF s = MORT THEN <<"L0", "L", "k", "x0">> ELSE cal_params

\* one row of cal_results: the estimates under their names, r2, and NaN in a
\* column that was not assigned
cal_row(s, series, cal_params, n_par) ==
    LET names == stored_under(s, cal_params)
    IN  Row(series,
            [c \in Range(cal_columns(cal_params)) |->
                IF c = "r2" THEN r2_score(series, n_par)
                ELSE IF \E j \in DOMAIN names : names[j] = c /\ j \in DOMAIN n_par
                THEN n_par[Position(names, c)]
                ELSE NaN])

CalResult(err, table, logged) == [err |-> err, table |-> table, logged |-> logged]

\* the loop of parameter_calibrating over the series of one region: a
\* RuntimeError of curve_fit is logged and the loop goes on with n_par as it
\* is (UnboundLocalError when it was never assigned); any other exception of
\* curve_fit is not caught
RECURSIVE calibrating(_, _, _, _, _, _)
calibrating(s, input, todo, cal_params, n_par, acc) ==
    IF todo = <<>> THEN acc
    ELSE LET series == Head(todo)
             fit == input[series]
             now == IF fit = Converges THEN curve_fit(s, series) ELSE n_par
             logged == IF fit = "RuntimeError" THEN Append(acc.logged, fit) ELSE acc.logged
         IN  IF fit \notin {Converges, "RuntimeError"}
             THEN CalResult(fit, <<>>, logged)
             ELSE IF now = Unbound
             THEN CalResult("UnboundLocalError", <<>>, logged)
             ELSE calibrating(s, input, Tail(todo), cal_params, now,
                      CalResult(NoException,
                                Append(acc.table, cal_row(s, series, cal_params, now)),
                                logged))

\* a calibration that fits only the first series of the region
parameter_calibrating_first_series(s, region, cal_data_input, cal_params) ==
    calibrating(s, cal_data_input, <<Head(Series(region))>>, cal_params, Unbound,
                CalResult(NoException, <<>>, <<>>))

\* parameter_calibrating(cal_data_input, cal_params) for one region
parameter_calibrating(s, region, cal_data_input, cal_params) ==
    calibrating(s, cal_data_input, Series(region), cal_params, Unbound,
                CalResult(NoException, <<>>, <<>>))

\* create_data_files: one file per region with the region's series
create_data_files(s, input_calibration) ==
    [name \in {temp_file(s, regions(s)[i]) : i \in DOMAIN regions(s)} |->
        LET region == CHOOSE r \in Range(regions(s)) : temp_file(s, r) = name
        IN  [series \in Range(Series(region)) |-> input_calibration[series]]]

\* a removal that takes every file of the folder with it
remove_every_file(fs, name) == [n \in {} |-> fs[n]]

\* os.remove(path)
remove(fs, name) == [n \in DOMAIN fs \ {name} |-> fs[n]]

-----------------------------------------------------------------------------
(* eurostat_clean.py *)

\* list(set(strings)): the elements in the order of their hashes, which
\* Python draws anew for every process
list_of_set(S) == {order \in [1..Cardinality(S) -> S] : Range(order) = S}

\* np.unique(raw_exp_str["exp_category"])
exp_categories(raw) == SelectSeq(<<"food", "house">>, LAMBDA c : \E k \in DOMAIN raw : k[1] = c)

\* the rate of the currency file: local currency to 2005 usd
raw_conv_rate(year) == Num(2)

\* the rows of one year and country: each category's share of the
\* expenditure structure times the total expenditure, then the total
eurostat_block(raw, year, country) ==
    LET categories == exp_categories(raw)
        raw_exp_country == Mul(raw[<<"exp", country, year>>], raw_conv_rate(year))
        column == [c \in {k \in DOMAIN raw : k[1] # "exp" /\ k[2] = country /\ k[3] = year}
                     |-> raw[c]]
    IN  [i \in DOMAIN categories |->
           Entry(country, categories[i], year,
                 Mul(Div(raw[<<categories[i], country, year>>], sum(column)),
                     raw_exp_country))]
        \o <<Entry(country, "Total", year, raw_exp_country)>>

\* the loops over years and eu_countries, both in the order of the lists
RECURSIVE eurostat_clean(_, _)
eurostat_clean(raw, keys) ==
    IF keys = <<>> THEN <<>>
    ELSE eurostat_block(raw, Head(keys)[1], Head(keys)[2]) \o eurostat_clean(raw, Tail(keys))

-----------------------------------------------------------------------------
(* cfps_fill_missing_data.py *)

CFPS == "cfps_fill_missing_data"

\* years = ["2014", "2016", "2018", "2020"]
cfps_years == <<2014, 2016, 2018, 2020>>
SurveyYears == DOMAIN cfps_years

\* the education codes a survey file can hold for a person and year: the
\* levels 0..8, 9 (no need for education), or nothing
CfpsCodes == {NaN} \cup {Num(n) : n \in 0..9}

\* the ages in the first survey year of the persons tried
CfpsAges == {3, 8, 16, 30}

\* a person of the survey files: the age in 2014 and what each year reports
\* as education
Person(age, edu) == [age |-> age, edu |-> edu]

\* persons with 0, 1, 2, 3 and 4 years of education data, so that every
\* group of count_avai exists
CfpsBasePersons ==
    <<Person(40, <<NaN, NaN, NaN, NaN>>),
      Person(40, <<Num(3), NaN, NaN, NaN>>),
      Person(40, <<Num(3), Num(3), NaN, NaN>>),
      Person(40, <<Num(3), Num(3), Num(3), NaN>>),
      Person(40, <<Num(3), Num(3), Num(3), Num(3)>>)>>

\* the survey files: the five persons above and one more, of any age tried
\* and with any codes; or the one person alone
CfpsDisks ==
    {CfpsBasePersons \o <<Person(age, edu)>> :
        age \in CfpsAges, edu \in [SurveyYears -> CfpsCodes]}
    \cup {<<Person(age, <<Num(3), Num(3), Num(3), Num(3)>>)>> : age \in CfpsAges}

\* "Read available data": one row per pid with the age in every survey
\* year, (age_in_year + year_ - year).clip(lower=0), and the education
\* reported in each year
read_cfps(d) ==
    [p \in DOMAIN d |->
        [pid |-> p,
         age |-> [i \in SurveyYears |->
                     IF d[p].age + cfps_years[i] - cfps_years[1] < 0 THEN 0
                     ELSE d[p].age + cfps_years[i] - cfps_years[1]],
         edu |-> d[p].edu]]

\* raw_person[edu_columns].replace([-9, -1, 9], np.nan)
replace_incorrect(raw_person) ==
    [p \in DOMAIN raw_person |->
        [raw_person[p] EXCEPT !.edu =
            [i \in SurveyYears |-> IF @[i] = Num(9) THEN NaN ELSE @[i]]]]

\* (pd.to_numeric(row, errors="coerce") >= 0).sum()
count_avai(row) ==
    Cardinality({i \in SurveyYears : IsNum(row.edu[i]) /\ row.edu[i][1] >= 0})

\* the education levels a row holds
edu_numbers(row) == {row.edu[i][1] : i \in {j \in SurveyYears : IsNum(row.edu[j])}}

\* row_edu_[column] == value
edu_is(row, i, value) == IsNum(row.edu[i]) /\ row.edu[i][1] = value

\* filling_edu_base_one for one row: every year is assigned from the one
\* level available and the age; a level outside 1..9 is spread only when
\* the person is older than 29 in the first year or younger than 14 in the
\* last
filling_edu_base_one(row) ==
    LET edu_avai == SetMax(edu_numbers(row))
        age == row.age
        year_ == SetMax({i \in SurveyYears : edu_is(row, i, edu_avai)})
        level(i) ==
            CASE edu_avai = 9 -> 0
              [] edu_avai = 1 ->
                    IF age[1] >= 10 THEN edu_avai
                    ELSE IF i > year_ /\ age[i] > 5 THEN edu_avai + 1 ELSE edu_avai
              [] edu_avai = 2 ->
                    IF age[1] >= 16 THEN edu_avai
                    ELSE IF i > year_ /\ age[i] > 12 THEN edu_avai + 1 ELSE edu_avai
              [] edu_avai = 3 ->
                    IF age[1] > 19 THEN edu_avai
                    ELSE IF i > year_
                    THEN (IF age[i] > 15 THEN edu_avai + 1 ELSE edu_avai)
                    ELSE IF age[i] < 6 THEN edu_avai - 2
                    ELSE IF age[i] < 13 THEN edu_avai - 1
                    ELSE edu_avai
              [] edu_avai = 4 ->
                    IF age[1] > 22 THEN edu_avai
                    ELSE IF i > year_
                    THEN (IF age[i] > 18 THEN edu_avai + 1 ELSE edu_avai)
                    ELSE IF age[i] < 12 THEN edu_avai - 2
                    ELSE IF age[i] < 16 THEN edu_avai - 1
                    ELSE edu_avai
              [] edu_avai \in {5, 6} ->
                    IF i > year_ THEN edu_avai
                    ELSE IF age[i] <= 19 THEN 4 ELSE edu_avai
              [] edu_avai \in {7, 8} ->
                    IF i > year_ THEN edu_avai
                    ELSE IF age[i] <= 29 THEN edu_avai - 1 ELSE edu_avai
              [] OTHER -> edu_avai
    IN  IF edu_avai \in 1..9 \/ age[1] > 29 \/ age[4] < 14
        THEN [row EXCEPT !.edu = [i \in SurveyYears |-> Num(level(i))]]
        ELSE row

\* filling_edu_base_two for one row: every missing year is assigned from
\* the two levels available and the age
filling_edu_base_two(row) ==
    LET edu_min == SetMin(edu_numbers(row))
        edu_max == SetMax(edu_numbers(row))
        age == row.age
        first_or_last(i) ==
            IF age[i] > 29 THEN edu_max
            ELSE IF age[i] < 6 THEN 1
            ELSE IF i = 1
            THEN (IF edu_min >= 3 /\ age[i] <= 12 THEN edu_min - 1 ELSE edu_min)
            ELSE IF age[i] >= 18
            THEN (IF edu_max = 4 THEN edu_max + 1 ELSE edu_max)
            ELSE IF age[i] > 15
            THEN (IF edu_max \in {2, 3, 4} THEN edu_max + 1 ELSE edu_max)
            ELSE IF age[i] > 12
            THEN (IF edu_max \in {1, 2, 3} THEN edu_max + 1 ELSE edu_max)
            ELSE (IF edu_max = 1 THEN edu_max + 1 ELSE edu_max)
        middle(i) ==
            IF age[i] > 29 THEN edu_max
            ELSE IF age[i] < 6 THEN 1
            ELSE IF edu_is(row, i + 1, edu_min) \/ edu_is(row, 4, edu_min)
            THEN edu_min
            ELSE IF edu_is(row, i - 1, edu_max) \/ edu_is(row, 1, edu_max)
            THEN (IF age[i] \in {6, 7, 8} \cup (12..20) THEN edu_max + 1 ELSE edu_max)
            ELSE IF edu_min = edu_max THEN edu_max
            ELSE IF edu_max - edu_min > 1 THEN edu_min + 1
            ELSE edu_max
    IN  [row EXCEPT !.edu =
            [i \in SurveyYears |->
                IF row.edu[i] # NaN THEN row.edu[i]
                ELSE IF i \in {1, 4} THEN Num(first_or_last(i)) ELSE Num(middle(i))]]

\* the level filling_edu_base_three gives the first survey year from the
\* age and the level of the next year; -1 stands for raise KeyError
first_year_level(age, next) ==
    CASE age < 6 -> IF next \in {1, 2} THEN 1 ELSE -1
      [] age >= 6 /\ age <= 12 ->
            (CASE next \in {1, 2} -> next
               [] next = 3 -> next - 1
               [] OTHER -> -1)
      [] age > 12 /\ age <= 15 ->
            (CASE next \in {1, 2} -> next
               [] next = 3 -> next
               [] next = 4 -> next - 1
               [] OTHER -> -1)
      [] age > 15 /\ age <= 18 ->
            (CASE next \in {1, 2, 3} -> next
               [] next = 4 -> next
               [] next = 5 -> next - 1
               [] OTHER -> 4)
      [] age > 18 /\ age <= 21 ->
            (CASE next \in {1, 2, 3, 4} -> next
               [] next \in {5, 6} -> next
               [] next = 7 -> next - 1
               [] OTHER -> -1)
      [] OTHER -> next

\* filling_edu_base_three for one row: the one missing year is assigned
\* from its neighbours and the age, or KeyError is raised
filling_edu_base_three(row) ==
    LET year_ == SetMax({i \in SurveyYears : row.edu[i] = NaN})
        age == row.age[year_]
        level ==
            CASE year_ = 1 -> first_year_level(age, row.edu[2][1])
              [] year_ = 4 ->
                    (LET previous == row.edu[3][1]
                     IN  IF age > 20 \/ age < 4 THEN previous
                         ELSE IF age >= 10
                         THEN (IF previous \in {1, 2, 3, 4} THEN previous + 1 ELSE previous)
                         ELSE (IF previous = 1 THEN previous + 1 ELSE previous))
              [] OTHER ->
                    (IF row.edu[year_ - 1] = row.edu[year_ + 1] THEN row.edu[year_ - 1][1]
                     ELSE IF age < 6 \/ age \in {10, 11, 13, 14, 16, 17, 20, 21}
                     THEN row.edu[year_ - 1][1]
                     ELSE row.edu[year_ + 1][1])
    IN  IF level = -1 THEN Result("KeyError", <<>>)
        ELSE Result(NoException, <<[row EXCEPT !.edu[year_] = Num(level)]>>)

\* one row of a count_avai group, filled as "Step 2" fills the group
fill_row(row) ==
    CASE count_avai(row) = 0 ->
            Result(NoException, <<[row EXCEPT !.edu = [i \in SurveyYears |-> Num(0)]]>>)
      [] count_avai(row) = 1 -> Result(NoException, <<filling_edu_base_one(row)>>)
      [] count_avai(row) = 2 -> Result(NoException, <<filling_edu_base_two(row)>>)
      [] count_avai(row) = 3 -> filling_edu_base_three(row)
      [] OTHER -> Result(NoException, <<row>>)

RECURSIVE fill_rows(_)
fill_rows(rows) ==
    IF rows = <<>> THEN Result(NoException, <<>>)
    ELSE LET r == fill_row(Head(rows))
             rest == fill_rows(Tail(rows))
         IN  IF r.err # NoException THEN r
             ELSE IF rest.err # NoException THEN rest
             ELSE Result(NoException, r.table \o rest.table)

\* "Step 2": for count_num in range(5) the group of the rows with that
\* count is looked up (KeyError when there is none), filled and appended
RECURSIVE raw_person_edu_adj(_, _)
raw_person_edu_adj(raw_person, count_num) ==
    IF count_num = 5 THEN Result(NoException, <<>>)
    ELSE LET raw_person_edu == SelectSeq(raw_person, LAMBDA row : count_avai(row) = count_num)
             filled == fill_rows(raw_person_edu)
             rest == raw_person_edu_adj(raw_person, count_num + 1)
         IN  IF raw_person_edu = <<>> THEN Result("KeyError", <<>>)
             ELSE IF filled.err # NoException THEN filled
             ELSE IF rest.err # NoException THEN rest
             ELSE Result(NoException, filled.table \o rest.table)

-----------------------------------------------------------------------------
(* uncomtrade_oil.py: "convert alternative units into kg" *)

COMTRADE == "uncomtrade_oil"

\* the largest number of trade records in the raw workbook
MaxRecords == 3

\* qtyUnitAbbr of a record: kg, l, another unit, or an empty cell
NoUnit == "nan"
UnitOrder == <<"kg", "l", "m3">>
ComtradeUnits == Range(UnitOrder) \cup {NoUnit}

\* a record of the workbook: its row (standing for period, reporter and
\* partners), the unit and the quantity
TradeRecord(row, qtyUnitAbbr, qty) == [row |-> row, qtyUnitAbbr |-> qtyUnitAbbr, qty |-> qty]

\* the workbooks: up to MaxRecords records of any unit, with a quantity or none
ComtradeDisks ==
    UNION {[1..n -> ComtradeUnits \X {Num(1), Num(2), NaN}] : n \in 0..MaxRecords}

\* pd.read_excel(...)[[columns]] of every file, concatenated
read_comtrade(d) == [i \in DOMAIN d |-> TradeRecord(i, d[i][1], d[i][2])]

\* kg per litre: 0.85984522
LitreToKg == Rat(85984522, 100000000)

\* np.unique(raw_comtrade["qtyUnitAbbr"].dropna())
comtrade_units(raw) ==
    SelectSeq(UnitOrder, LAMBDA u : \E i \in DOMAIN raw : raw[i].qtyUnitAbbr = u)

\* raw_comtrade_groups.get_group(unit) with qty in kg: the litres are
\* multiplied by 0.85984522 and labelled kg
comtrade_unit_in_kg(raw, unit) ==
    LET raw_comtrade_unit == SelectSeq(raw, LAMBDA r : r.qtyUnitAbbr = unit)
    IN  [i \in DOMAIN raw_comtrade_unit |->
           IF unit = "l"
           THEN [raw_comtrade_unit[i] EXCEPT !.qty = Mul(@, LitreToKg), !.qtyUnitAbbr = "kg"]
           ELSE raw_comtrade_unit[i]]

\* for unit in units: the groups of kg and of l are converted and
\* concatenated, the groups of the other units are passed over
RECURSIVE convert_units(_, _)
convert_units(raw, units) ==
    IF units = <<>> THEN <<>>
    ELSE IF Head(units) \in {"kg", "l"}
    THEN comtrade_unit_in_kg(raw, Head(units)) \o convert_units(raw, Tail(units))
    ELSE convert_units(raw, Tail(units))

-----------------------------------------------------------------------------
(* DataFrame.to_csv: NaN, None and "" are all written as an empty field *)

CsvField(v) == IF IsNum(v) THEN v ELSE Blank

to_csv_entries(table) ==
    [i \in DOMAIN table |-> [table[i] EXCEPT !.value = CsvField(@)]]

to_csv(table) ==
    [i \in DOMAIN table |->
        Row(table[i].parameter, [y \in DOMAIN table[i].cols |-> CsvField(table[i].cols[y])])]

-----------------------------------------------------------------------------
(* The run *)

\* a lookup that falls back to the first entry of the list instead of
\* leaving raw_data_info empty
raw_data_info_or_first(s, data_input) ==
    LET own == OwnDataset(s)
        hits == {i \in DOMAIN data_input :
                    \A k \in compared_keys(s) : data_input[i][k] = own[k]}
    IN  IF hits # {} THEN data_input[SetMax(hits)]
        ELSE IF data_input = <<>> THEN NoInfo ELSE data_input[1]

\* the loop over data_info["data_input"]: the last entry that has the values
\* the script hard-codes wins
raw_data_info_of(s, data_input) ==
    LET own == OwnDataset(s)
        hits == {i \in DOMAIN data_input :
                    \A k \in compared_keys(s) : data_input[i][k] = own[k]}
    IN  IF hits = {} THEN NoInfo ELSE data_input[SetMax(hits)]

\* pd.read_csv / pd.read_excel of the raw files: the rows they hold; in the
\* wide table of the World Bank population file a missing value is an empty
\* cell of the country's row; population_aggregation reads the UNPD file
\* here and the IIASA file later
read(s, d) ==
    CASE s \in CalibrationScripts \cup {EUROSTAT} -> d
      [] s = CFPS -> read_cfps(d)
      [] s = COMTRADE -> read_comtrade(d)
      [] s = POP_WB -> [c \in DOMAIN d |-> IF d[c] = Absent THEN NaN ELSE d[c]]
      [] s = POP -> [c \in {k \in DOMAIN d : d[k] # Absent /\ k[3] \in Range(UnpdYears)} |-> d[c]]
      [] OTHER -> [c \in {k \in DOMAIN d : d[k] # Absent} |-> d[c]]

read_iiasa(d) ==
    [c \in {k \in DOMAIN d : d[k] # Absent /\ k[3] \in Range(IiasaYears)} |-> d[c]]

data_cleaning(s, raw) ==
    CASE s = GDP -> gdp_data_cleaning_world_bank(raw)
      [] s = CAPITAL -> capital_data_cleaning_world_bank(raw)
      [] s = WATER -> water_data_cleaning(raw)
      [] s = POP -> data_cleaning_unpd(raw)
      [] s = POP_WIT -> wit_data_aggregation(raw)
      [] s = ENERGY_TRADE -> energy_trade_data_cleaning(raw)
      [] s = ELECT -> elect_data_cleaning_world_bank(raw)
      [] s = CAPITAL_SHARES -> shares_data_cleaning_world_bank(raw)
      [] s = NET_ENROLL -> enroll_data_cleaning_world_bank(raw)
      [] s = CFPS -> raw_person_edu_adj(replace_incorrect(raw), 0)

\* the raw table the caller holds once data_cleaning has returned:
\* energy_trade assigns the labels of the table it is given, the other
\* cleaners work on the frames merge and get_group return
raw_data_cleaned(s, raw) ==
    CASE s = ENERGY_TRADE -> columns_str_lower(raw)
      [] s = CFPS -> replace_incorrect(raw)
      [] OTHER -> raw

\* cleaned_population[cleaned_population["year"] < 2022] and the projections
concat_iiasa(cleaned, cleaned_iiasa) ==
    SelectSeq(cleaned, LAMBDA e : e.year < LastUnpdYear) \o cleaned_iiasa

data_restructure(s, raw, cleaned, cleaned_iiasa) ==
    CASE s = GDP -> gdp_data_restructure(cleaned)
      [] s = CAPITAL -> capital_data_restructure(cleaned)
      [] s = WATER -> water_data_restructure(cleaned)
      [] s = POP -> population_data_restructure(concat_iiasa(cleaned, cleaned_iiasa))
      [] s = POP_WB -> worldbank_data_restructure(raw)
      [] s = POP_WIT -> wit_data_restructure(cleaned)
      [] s = ENERGY_TRADE -> energy_trade_data_restructure(cleaned)
      [] s = ELECT -> elect_data_restructure(cleaned)
      [] s = CAPITAL_SHARES -> shares_data_restructure(cleaned)
      [] s = NET_ENROLL -> enroll_data_restructure(cleaned)

\* the first step of the script
first_step(s) == IF s \in ConfiguredScripts THEN "config" ELSE "read"

\* the step after reading, after cleaning
after_read(s) ==
    CASE s = POP_WB -> "restructure"
      [] s = COMTRADE -> "convert"
      [] s \in CalibrationScripts -> "create_files"
      [] OTHER -> "clean"

after_clean(s) ==
    CASE s = POP -> "clean_iiasa"
      [] s = CFPS -> "write"
      [] s = POP_WIT -> "write_clean"
      [] OTHER -> "restructure"

Init ==
    /\ script \in Scripts
    /\ \/ /\ data_info = <<OwnDataset(script)>>
          /\ disk \in IrregularDisks(script, MaxIrregular)
       \/ /\ script \in ConfiguredScripts
          /\ data_info \in IrregularConfigs(script)
          /\ disk \in IrregularDisks(script, MaxIrregular - 2)
    /\ pc = first_step(script)
    /\ raw_data_info = NoInfo
    /\ raw_data = Empty
    /\ concordance_loaded = Empty
    /\ cleaned_data = Empty
    /\ cleaned_data_iiasa = Empty
    /\ restructured_data = Empty
    /\ cal_results_all = Empty
    /\ region_i = 1
    /\ log = Empty
    /\ files = Empty
    /\ exception = NoException
    /\ run = 1

\* an exception that is recorded while the run goes on to its last step
RaiseAndGoOn(e) ==
    /\ pc' = "write"
    /\ exception' = e

\* an uncaught exception: the traceback is printed and the process ends
Raise(e) ==
    /\ pc' = "crashed"
    /\ exception' = e

\* "Extracting information of input data": raise KeyError without an entry
ExtractInfo ==
    /\ pc = "config"
    /\ raw_data_info' = raw_data_info_of(script, data_info)
    /\ IF raw_data_info' = NoInfo
       THEN Raise("KeyError")
       ELSE pc' = "read" /\ UNCHANGED exception
    /\ UNCHANGED <<inputs, tables, calibration, files>>

\* "Read raw data"
ReadRaw ==
    /\ pc = "read"
    /\ raw_data' = read(script, disk)
    /\ concordance_loaded' =
           IF script \in ConcordanceScripts THEN read_concordance(script) ELSE Empty
    /\ pc' = after_read(script)
    /\ UNCHANGED <<inputs, raw_data_info, cleaned_data, cleaned_data_iiasa,
                   restructured_data, calibration, files, exception>>

\* cleaned = data_cleaning(raw_data, concordance_table)
Clean ==
    /\ pc = "clean"
    /\ script # EUROSTAT
    /\ LET r == data_cleaning(script, raw_data)
       IN  IF r.err # NoException
           THEN Raise(r.err) /\ UNCHANGED cleaned_data
           ELSE cleaned_data' = r.table /\ pc' = after_clean(script) /\ UNCHANGED exception
    /\ raw_data' = raw_data_cleaned(script, raw_data)
    /\ UNCHANGED <<inputs, raw_data_info, concordance_loaded, cleaned_data_iiasa,
                   restructured_data, calibration, files>>

\* eurostat_clean.py from "Configure data years" to the end of the loops
CleanEurostat ==
    /\ pc = "clean"
    /\ script = EUROSTAT
    /\ \E years \in list_of_set({c[3] : c \in DOMAIN raw_data}) :
       \E eu_countries \in list_of_set({c[2] : c \in DOMAIN raw_data}) :
          cleaned_data' = eurostat_clean(raw_data, Product2(years, eu_countries))
    /\ pc' = "write"
    /\ UNCHANGED <<inputs, raw_data_info, raw_data, concordance_loaded, cleaned_data_iiasa,
                   restructured_data, calibration, files, exception>>

\* population_aggregation.py: read the IIASA projections and clean them
CleanIiasa ==
    /\ pc = "clean_iiasa"
    /\ LET r == data_cleaning_iiasa(read_iiasa(disk))
       IN  IF r.err # NoException
           THEN Raise(r.err) /\ UNCHANGED cleaned_data_iiasa
           ELSE cleaned_data_iiasa' = r.table /\ pc' = "restructure" /\ UNCHANGED exception
    /\ UNCHANGED <<inputs, raw_data_info, raw_data, concordance_loaded, cleaned_data,
                   restructured_data, calibration, files>>

\* population_aggregation_wit.py: cleaned_data.to_csv(...)
WriteCleanCsv ==
    /\ pc = "write_clean"
    /\ files' = (cleaned_file :> cleaned_data) @@ files
    /\ pc' = "restructure"
    /\ UNCHANGED <<inputs, raw_data_info, tables, calibration, exception>>

\* restructured = data_restructure(cleaned); population_aggregation leaves
\* by exit() when a cohort lacks the value of a year
Restructure ==
    /\ pc = "restructure"
    /\ LET r == data_restructure(script, raw_data, cleaned_data, cleaned_data_iiasa)
       IN  CASE r.err = NoException ->
                  restructured_data' = r.table /\ pc' = "write" /\ UNCHANGED exception
             [] r.err = "exit" ->
                  pc' = "exited" /\ UNCHANGED <<restructured_data, exception>>
             [] OTHER ->
                  Raise(r.err) /\ UNCHANGED restructured_data
    /\ UNCHANGED <<inputs, raw_data_info, raw_data, concordance_loaded, cleaned_data,
                   cleaned_data_iiasa, calibration, files>>

\* cal_data_dep_all = create_data_files(...)
CreateDataFiles ==
    /\ pc = "create_files"
    /\ files' = create_data_files(script, raw_data) @@ files
    /\ pc' = "calibrate"
    /\ UNCHANGED <<inputs, raw_data_info, tables, calibration, exception>>

\* one pass of "for region in regions": read the region's file, calibrate,
\* append the rows to cal_results_all, remove the file
Calibrate ==
    /\ pc = "calibrate"
    /\ LET region == regions(script)[region_i]
           path_cal_data_file == temp_file(script, region)
           r == parameter_calibrating(script, region, files[path_cal_data_file],
                                      raw_data_info.parameter)
       IN  /\ log' = log \o r.logged
           /\ IF r.err # NoException
              THEN Raise(r.err) /\ UNCHANGED <<cal_results_all, region_i, files>>
              ELSE /\ cal_results_all' = cal_results_all \o r.table
                   /\ files' = remove(files, path_cal_data_file)
                   /\ region_i' = region_i + 1
                   /\ pc' = IF region_i = Len(regions(script)) THEN "write" ELSE "calibrate"
                   /\ UNCHANGED exception
    /\ UNCHANGED <<inputs, raw_data_info, tables>>

\* what the script writes last
output(s) ==
    CASE s \in CalibrationScripts -> cal_results_all
      [] s = EUROSTAT -> to_csv_entries(cleaned_data)
      [] s = CFPS -> cleaned_data
      [] OTHER -> to_csv(restructured_data)

\* the final to_csv(path_clean_data_folder / file name)
WriteCsv ==
    /\ pc = "write"
    /\ files' = (output_file(script) :> output(script)) @@ files
    /\ pc' = "done"
    /\ UNCHANGED <<inputs, raw_data_info, tables, calibration, exception>>

Next ==
    \/ ExtractInfo
    \/ ReadRaw
    \/ Clean
    \/ CleanEurostat
    \/ CleanIiasa
    \/ WriteCleanCsv
    \/ Restructure
    \/ CreateDataFiles
    \/ Calibrate
    \/ WriteCsv

Spec == Init /\ [][Next]_vars

\* the script is started again on the files the run before has left
Rerun ==
    /\ pc \in {"done", "crashed", "exited"}
    /\ run < MaxRuns
    /\ run' = run + 1
    /\ pc' = first_step(script)
    /\ raw_data_info' = NoInfo
    /\ raw_data' = Empty
    /\ concordance_loaded' = Empty
    /\ cleaned_data' = Empty
    /\ cleaned_data_iiasa' = Empty
    /\ restructured_data' = Empty
    /\ cal_results_all' = Empty
    /\ region_i' = 1
    /\ log' = Empty
    /\ exception' = NoException
    /\ UNCHANGED <<script, data_info, disk, files>>

NextRerun == Next \/ Rerun

SpecRerun == Init /\ [][NextRerun]_vars

\* a run of cfps_fill_missing_data: read, fill, save
InitCfps ==
    /\ script = CFPS
    /\ data_info = Empty
    /\ disk \in CfpsDisks
    /\ pc = "read"
    /\ raw_data_info = NoInfo
    /\ raw_data = Empty
    /\ concordance_loaded = Empty
    /\ cleaned_data = Empty
    /\ cleaned_data_iiasa = Empty
    /\ restructured_data = Empty
    /\ cal_results_all = Empty
    /\ region_i = 1
    /\ log = Empty
    /\ files = Empty
    /\ exception = NoException
    /\ run = 1

NextCfps == ReadRaw \/ Clean \/ WriteCsv

SpecCfps == InitCfps /\ [][NextCfps]_vars

\* uncomtrade_oil.py from "convert alternative units into kg" to "All
\* alternative units have been converted into kg"
ConvertUnits ==
    /\ pc = "convert"
    /\ raw_data' = convert_units(raw_data, comtrade_units(raw_data))
    /\ pc' = "clean"
    /\ UNCHANGED <<inputs, raw_data_info, concordance_loaded, cleaned_data,
                   cleaned_data_iiasa, restructured_data, calibration, files, exception>>

\* a run of uncomtrade_oil up to the cleaning of the converted records
InitComtrade ==
    /\ script = COMTRADE
    /\ data_info = Empty
    /\ disk \in ComtradeDisks
    /\ pc = "read"
    /\ raw_data_info = NoInfo
    /\ raw_data = Empty
    /\ concordance_loaded = Empty
    /\ cleaned_data = Empty
    /\ cleaned_data_iiasa = Empty
    /\ restructured_data = Empty
    /\ cal_results_all = Empty
    /\ region_i = 1
    /\ log = Empty
    /\ files = Empty
    /\ exception = NoException
    /\ run = 1

NextComtrade == ReadRaw \/ ConvertUnits

SpecComtrade == InitComtrade /\ [][NextComtrade]_vars

-----------------------------------------------------------------------------
(* What the properties below speak about *)

\* the run has a cleaned table / a restructured table / has ended normally
Cleaned == pc \in {"restructure", "write", "done"}
Restructured == pc \in {"write", "done"}

\* the sum of the numbers the countries cs report in a table and year of the
\* raw files, a country without a number counting nothing
RECURSIVE InputSum(_, _, _)
InputSum(tab, cs, year) ==
    IF cs = <<>> THEN Num(0)
    ELSE LET v == disk[<<tab, Head(cs), year>>]
         IN  RatAdd(IF IsNum(v) THEN v ELSE Num(0), InputSum(tab, Tail(cs), year))

RegionInputSum(tab, region, year) == InputSum(tab, CountriesOf(script, region), year)

FelixRegions == <<"Africa", "AsiaPacific", "EastEu", "LAC", "WestEu">>

RECURSIVE AllRegionsInputSum(_, _, _)
AllRegionsInputSum(tab, rs, year) ==
    IF rs = <<>> THEN Num(0)
    ELSE RatAdd(RegionInputSum(tab, Head(rs), year), AllRegionsInputSum(tab, Tail(rs), year))

\* the rows of a region's countries in a table and year of the raw files, and
\* those of them that hold no number
RowsOf(tab, region, year) ==
    {c \in Range(CountriesOf(script, region)) : disk[<<tab, c, year>>] # Absent}
MissingOf(tab, region, year) ==
    {c \in RowsOf(tab, region, year) : ~IsNum(disk[<<tab, c, year>>])}

\* the values the cleaned table holds for a region, item and year
CleanedValues(region, item, year) ==
    {cleaned_data[i].value : i \in {j \in DOMAIN cleaned_data :
        /\ cleaned_data[j].region = region
        /\ cleaned_data[j].item = item
        /\ cleaned_data[j].year = year}}

\* the region and the item a restructured row stands for
RowRegion(row) == row.parameter[2]
RowItem(row) == IF script = WATER THEN row.parameter[1] ELSE "value"

-----------------------------------------------------------------------------
(* C1 *)

\* C1 (as stated): in every restructured row, a year column equals the
\* cleaned value of the row's parameter combination for that year when the
\* cleaned table has one, and holds no number otherwise.
C1_YearColumnEqualsCleanedValue ==
    (script \in {GDP, CAPITAL, WATER} /\ Restructured) =>
        \A r \in DOMAIN restructured_data : \A y \in YearColumns :
            LET row == restructured_data[r]
                vs == CleanedValues(RowRegion(row), RowItem(row), y)
            IN  IF vs # {} THEN row.cols[y] \in vs ELSE ~IsNum(row.cols[y])

-----------------------------------------------------------------------------
(* C2 *)

\* C2 (as stated): every regional value the cleaners emit equals the sum of
\* the numbers the region's countries report for that year.
C2_AggregateEqualsInputSum ==
    (script \in {GDP, CAPITAL, WATER} /\ Cleaned) =>
        \A i \in DOMAIN cleaned_data :
            LET e == cleaned_data[i]
            IN  e.region # "World" => e.value = RegionInputSum(e.item, e.region, e.year)

\* C2 (amended): water_withdrawal_by_sector and capital_activities emit the
\* sum of the numbers the region's countries report; gdp_aggregation emits
\* that sum multiplied by the raw World value and divided by the total of
\* the five regional sums, so that its regional values add up to World.
C2_AggregateEqualsBalancedInputSum ==
    (script \in {GDP, CAPITAL, WATER} /\ Cleaned) =>
        \A i \in DOMAIN cleaned_data :
            LET e == cleaned_data[i]
                own == RegionInputSum(e.item, e.region, e.year)
                total == AllRegionsInputSum(e.item, FelixRegions, e.year)
                world == disk[<<e.item, "World", e.year>>]
            IN  CASE e.region = "World" /\ script = CAPITAL -> e.value = total
                  [] e.region = "World" /\ script = GDP -> e.value = own
                  [] e.region # "World" /\ script = GDP ->
                        e.value = Div(Mul(own, world), total)
                  [] OTHER -> e.value = own

\* C2 (witness): capital_activities has emitted a value for a region one of
\* whose countries reports no number, so the sum skipped that country
C2_Witness ==
    /\ script = CAPITAL
    /\ pc = "done"
    /\ \E i \in DOMAIN cleaned_data :
          /\ cleaned_data[i].region # "World"
          /\ MissingOf("value", cleaned_data[i].region, cleaned_data[i].year) # {}

-----------------------------------------------------------------------------
(* C3 *)

\* C3 (as stated): a regional value for a (region, year) is emitted only if
\* fewer than 20% of the region's countries have no value in that year.
C3_EmittedOnlyBelow20PercentMissing ==
    (script \in {GDP, CAPITAL} /\ Cleaned) =>
        \A i \in DOMAIN cleaned_data :
            LET e == cleaned_data[i]
            IN  e.region # "World" =>
                   Cardinality(MissingOf(e.item, e.region, e.year)) * 100
                       < Cardinality(RowsOf(e.item, e.region, e.year)) * 20

-----------------------------------------------------------------------------
(* C4 *)

\* the scripts that restructure a table into rows of year columns
Restructuring == {GDP, CAPITAL, WATER, POP, POP_WB, POP_WIT}

\* the years of which a cleaned table holds an observation
ObservedYears ==
    {cleaned_data[i].year : i \in DOMAIN cleaned_data}
        \cup {cleaned_data_iiasa[i].year : i \in DOMAIN cleaned_data_iiasa}

\* the year columns the World Bank population file has
WorldBankColumns == {c[3] : c \in DOMAIN disk}

\* C4 (as stated): every row of every restructured table has exactly the
\* year columns 1900..2100, and a year without a cleaned observation holds
\* no number.
C4_YearColumns1900To2100 ==
    (script \in Restructuring /\ Restructured) =>
        \A r \in DOMAIN restructured_data :
            /\ DOMAIN restructured_data[r].cols = 1900..2100
            /\ \A y \in (1900..2100) \ ObservedYears : ~IsNum(restructured_data[r].cols[y])

\* C4 (amended): the rows of gdp_aggregation, capital_activities,
\* water_withdrawal_by_sector and population_aggregation have exactly the
\* year columns 1900..2100, those of population_aggregation_wit exactly
\* 1900..2020, and in both a year without a cleaned observation holds no
\* number; the rows of population_aggregation_worldbank have exactly the
\* year columns of the raw file that lie in 1960..2029, none of them blank.
C4_YearColumnsOfEachScript ==
    (script \in Restructuring /\ Restructured) =>
        \A r \in DOMAIN restructured_data :
            LET cols == restructured_data[r].cols
            IN  CASE script = POP_WB ->
                       /\ DOMAIN cols = WorldBankColumns \cap (1960..2029)
                       /\ \A y \in DOMAIN cols : IsNum(cols[y])
                  [] script = POP_WIT ->
                       /\ DOMAIN cols = 1900..2020
                       /\ \A y \in (1900..2020) \ ObservedYears : cols[y] = None
                  [] OTHER ->
                       /\ DOMAIN cols = 1900..2100
                       /\ \A y \in (1900..2100) \ ObservedYears : ~IsNum(cols[y])

\* C4 (witness): gdp_aggregation has written rows with a number in an
\* observed year and a blank in the years 1900 and 2100
C4_Witness ==
    /\ script = GDP
    /\ pc = "done"
    /\ \E r \in DOMAIN restructured_data :
          /\ IsNum(restructured_data[r].cols[2000])
          /\ restructured_data[r].cols[1900] = Blank
          /\ restructured_data[r].cols[2100] = Blank

-----------------------------------------------------------------------------
(* C5 *)

\* C5 (as stated): a script started again on the same raw files and the
\* same concordance table writes byte for byte the files of its first run.
C5_RerunWritesSameFiles ==
    [][(run > 1 /\ pc \in {"write_clean", "write"}) => files' = files]_vars

-----------------------------------------------------------------------------
(* C6 *)

\* the years and tables the raw rows of the mapped countries cover
YearsRead ==
    {c[3] : c \in {k \in DOMAIN disk : k[2] \in DOMAIN concordance(script) /\ disk[k] # Absent}}
TablesRead ==
    {c[1] : c \in {k \in DOMAIN disk : k[2] \in DOMAIN concordance(script) /\ disk[k] # Absent}}

\* a region's year is left out because too many of its countries have no value
UnderThreshold(region, year) ==
    LET rows == RowsOf("value", region, year)
    IN  /\ region # "World"
        /\ rows # {}
        /\ ~(Cardinality(MissingOf("value", region, year)) * 100
                < Cardinality(rows) * threshlod_nan(script, region))

\* the group keys the cleaner looks up: every region of every table and year
\* read; gdp_aggregation leaves a year at its first region under the threshold
LookedUp ==
    {g \in TablesRead \X Range(regions(script)) \X YearsRead :
        script = GDP =>
            \A j \in DOMAIN regions(GDP) :
                (\E i \in DOMAIN regions(GDP) : j < i /\ regions(GDP)[i] = g[2])
                    => ~UnderThreshold(regions(GDP)[j], g[3])}

AbsentGroupLookedUp == \E g \in LookedUp : RowsOf(g[1], g[2], g[3]) = {}

\* C6 (as stated): whenever a cleaner looks up a group key that is absent
\* from the grouped table, the run is terminated: it never has a cleaned table.
C6_AbsentGroupTerminates ==
    (script \in {GDP, CAPITAL, WATER} /\ AbsentGroupLookedUp) => ~Cleaned

\* C6 (amended): the cleaners of gdp_aggregation and capital_activities do
\* not catch the KeyError of an absent group key, which ends the run; the
\* cleaner and the restructurer of water_withdrawal_by_sector and the
\* restructurer of capital_activities catch it, skip the key (leaving the
\* cell empty) and go on, so their runs end with a KeyError only for a
\* missing configuration entry or an empty table.
C6_AbsentGroupTerminatesWhereUncaught ==
    /\ (script \in {GDP, CAPITAL} /\ AbsentGroupLookedUp) =>
          /\ ~Cleaned
          /\ pc = "crashed" => exception = "KeyError"
    /\ (script = WATER /\ pc = "crashed") =>
          \/ raw_data_info = NoInfo
          \/ \A g \in LookedUp : RowsOf(g[1], g[2], g[3]) = {}
    /\ (script = CAPITAL /\ pc = "crashed") =>
          \/ raw_data_info = NoInfo
          \/ AbsentGroupLookedUp
          \/ \A g \in LookedUp : UnderThreshold(g[2], g[3]) \/ g[2] = "World"

\* C6 (witness): gdp_aggregation was ended by the KeyError of a group key
\* that its cleaner looked up and that no raw row has
C6_Witness ==
    /\ script = GDP
    /\ raw_data_info # NoInfo
    /\ AbsentGroupLookedUp
    /\ pc = "crashed"
    /\ exception = "KeyError"

-----------------------------------------------------------------------------
(* C7 *)

\* the final CSV of the script has been written
OutputWritten == output_file(script) \in DOMAIN files

-----------------------------------------------------------------------------
(* C8 *)

\* the steps at which a run is still going: each has a next step
Running ==
    {"config", "read", "clean", "clean_iiasa", "write_clean", "restructure",
     "create_files", "calibrate", "write"}

\* C8 (as stated): a run ends either having completed every step, its final
\* CSV written, or terminated by an uncaught exception.
C8_RunEndsWrittenOrCrashed ==
    pc \notin Running =>
        \/ pc = "done" /\ OutputWritten
        \/ pc = "crashed" /\ exception # NoException

-----------------------------------------------------------------------------
(* C9 *)

\* an entry of the configuration has the data source, variable and download
\* method the script is written for, as far as the script names them
Matches(d) ==
    CASE script = POP -> d.datasource = "unpd" /\ d.download_via = "api"
      [] script \in CalibrationScripts -> d.variable = variable(script)
      [] OTHER -> /\ d.datasource = data_source(script)
                  /\ d.variable = variable(script)
                  /\ d.download_via = download_method(script)

NoMatchingDataset ==
    /\ script \in ConfiguredScripts
    /\ \A i \in DOMAIN data_info : ~Matches(data_info[i])

\* C9: when config.yaml has no data set entry matching the script's data
\* source, variable and download method, the run ends with a KeyError
\* at the look-up, having read no raw data and written no file.
C9_NoDatasetRaisesKeyError ==
    NoMatchingDataset =>
        /\ pc \in {"config", "crashed"}
        /\ pc = "crashed" => exception = "KeyError"
        /\ raw_data = Empty
        /\ files = Empty

\* C9 (witness): a run whose configuration has entries, none of them
\* matching, was ended at the look-up
C9_Witness ==
    /\ NoMatchingDataset
    /\ data_info # <<>>
    /\ pc = "crashed"

-----------------------------------------------------------------------------
(* C10 *)

\* the rows of the calibration result, gathered or written
ResultRows ==
    {cal_results_all[i] : i \in DOMAIN cal_results_all}
        \cup (IF OutputWritten
              THEN {files[output_file(script)][i] : i \in DOMAIN files[output_file(script)]}
              ELSE {})

\* C10 (as stated): every calibration result row holds the estimates of
\* exactly the four logistic parameters L0, L, k, x0 and an R squared.
C10_FourParametersAndR2 ==
    script \in CalibrationScripts =>
        \A row \in ResultRows :
            /\ DOMAIN row.cols = {"L0", "L", "k", "x0", "r2"}
            /\ \A c \in {"L0", "L", "k", "x0"} : \E series \in AllSeries(script) :
                   row.cols[c] = <<series, c>>

\* C10 (amended): mortality_fraction fits the four parameters L0, L, k, x0
\* of one logistic curve; total_fertility fits the eight parameters of two
\* (L0, L, k, x0 for GDP per capita and for mean years of schooling); every
\* result row holds one estimate per fitted parameter and an R squared.
C10_ParametersOfTheScriptAndR2 ==
    script \in CalibrationScripts =>
        LET fitted == IF script = MORT
                      THEN {"L0", "L", "k", "x0"}
                      ELSE {"L0_gdp", "L_gdp", "k_gdp", "x0_gdp",
                            "L0_mys", "L_mys", "k_mys", "x0_mys"}
        IN  \A row \in ResultRows :
                /\ DOMAIN row.cols = fitted \cup {"r2"}
                /\ \A c \in fitted : \E series \in AllSeries(script) :
                       row.cols[c] = <<series, c>>
                /\ \E series \in AllSeries(script) : row.cols["r2"][1] = series

\* C10 (witness): total_fertility has written a result with a row for
\* every series
C10_Witness ==
    /\ script = TFR
    /\ pc = "done"
    /\ Cardinality(ResultRows) = Cardinality(AllSeries(TFR))

-----------------------------------------------------------------------------
(* C11 *)

\* the calibration result table the script has written
WrittenResult == files[output_file(script)]

\* the rows of the written result that belong to a region
RowsOfRegion(region) ==
    {i \in DOMAIN WrittenResult : WrittenResult[i].parameter[1] = region}

\* C11 (as stated): the calibration result table written by a calibration
\* script contains exactly one result vector per region.
C11_OneRowPerRegion ==
    (script \in CalibrationScripts /\ OutputWritten) =>
        \A region \in Range(regions(script)) : Cardinality(RowsOfRegion(region)) = 1

\* C11 (amended): the written calibration result contains exactly one row
\* for every historical series of every configured region (a region with
\* several series, one per gender and age cohort, has several rows), the
\* rows of a region together and the regions in the configured order.
C11_OneRowPerSeries ==
    (script \in CalibrationScripts /\ OutputWritten) =>
        /\ Len(WrittenResult) = Cardinality(AllSeries(script))
        /\ \A series \in AllSeries(script) :
               Cardinality({i \in DOMAIN WrittenResult :
                               WrittenResult[i].parameter = series}) = 1
        /\ \A i, j \in DOMAIN WrittenResult :
               i < j => Position(regions(script), WrittenResult[i].parameter[1])
                            <= Position(regions(script), WrittenResult[j].parameter[1])

\* C11 (witness): mortality_fraction has written a result in which a region
\* has two rows
C11_Witness ==
    /\ script = MORT
    /\ pc = "done"
    /\ OutputWritten
    /\ \E region \in Range(regions(MORT)) : Cardinality(RowsOfRegion(region)) = 2

-----------------------------------------------------------------------------
(* C12 *)

\* the temporary per-region files of a calibration script
TempFiles(s) ==
    IF s \in CalibrationScripts
    THEN {temp_file(s, regions(s)[i]) : i \in DOMAIN regions(s)}
    ELSE {}

-----------------------------------------------------------------------------
(* C15 *)

\* C15 (as stated): every row of a calibration result holds parameters and
\* an R squared obtained from a successful fit to that row's own historical
\* series; parameters fitted for one series are never recorded for a
\* different series.
C15_RowHoldsFitOfItsOwnSeries ==
    script \in CalibrationScripts =>
        \A row \in ResultRows :
            LET own == curve_fit(script, row.parameter)
            IN  /\ raw_data[row.parameter] = Converges
                /\ \A j \in DOMAIN own :
                       row.cols[stored_under(script, raw_data_info.parameter)[j]] = own[j]
                /\ row.cols["r2"] = r2_score(row.parameter, own)

-----------------------------------------------------------------------------
(* C20 *)

\* C20 (as stated): no temporary per-region calibration file
\* calibration_<variable>_<region>.csv created by a calibration run remains
\* on disk once that run has ended, whether it ended normally or with an
\* exception.
C20_NoTempFileAfterRun ==
    (script \in CalibrationScripts /\ pc \notin Running) =>
        TempFiles(script) \cap DOMAIN files = {}

-----------------------------------------------------------------------------
(* C16 *)

\* the entries of the FeliX regions the cleaned table holds for a year
RegionalEntries(year) ==
    SelectSeq(cleaned_data, LAMBDA e : e.region # "World" /\ e.year = year)

\* C16 (as stated): for every year for which the GDP cleaner emits regional
\* values, the emitted regional values (after the balancing scale factor is
\* applied) sum to the raw World GDP value of that year.
C16_RegionalValuesSumToRawWorld ==
    (script = GDP /\ Cleaned) =>
        \A year \in year_avail(cleaned_data) :
            RegionalEntries(year) # <<>> =>
                SumSeq(values(RegionalEntries(year))) = disk[<<"value", "World", year>>]

-----------------------------------------------------------------------------
(* C18 *)

\* C18: in the output of the GDP cleaner, every year that appears at all
\* has an entry for every configured region (World included), so each
\* (region, year) lookup the GDP restructurer makes for an available year
\* finds a group and the restructurer raises no KeyError.
C18_EveryYearHasEveryRegion ==
    (script = GDP /\ Cleaned) =>
        /\ \A year \in year_avail(cleaned_data) :
               \A i \in DOMAIN regions(GDP) :
                   cleaned_group(cleaned_data, regions(GDP)[i], "value", year) # <<>>
        /\ gdp_data_restructure(cleaned_data).err = NoException

\* C18 (witness): gdp_aggregation has restructured a cleaned table from
\* which a year of the raw file was left out because a region was under the
\* threshold
C18_Witness ==
    /\ script = GDP
    /\ pc = "done"
    /\ \E y \in YearsRead : \E region \in Range(FelixRegions) :
          /\ y \notin year_avail(cleaned_data)
          /\ MissingOf("value", region, y) # {}
    /\ year_avail(cleaned_data) # {}

-----------------------------------------------------------------------------
(* C14 *)

-----------------------------------------------------------------------------
(* C13 *)

-----------------------------------------------------------------------------
(* C19 *)

\* C19 (as stated): in elect_loss_rate, restructuring completes without
\* error for every cleaned table the cleaner can produce, including tables
\* in which some (region, year) pairs were skipped because raw or dependent
\* data was missing.
C19_RestructureCompletes ==
    (script = ELECT /\ pc = "restructure") =>
        elect_data_restructure(cleaned_data).err = NoException

-----------------------------------------------------------------------------
(* C17 *)

\* C17 (as stated): in the file written by cfps_fill_missing_data, every
\* person has a non-missing education level for each of the four survey
\* years 2014, 2016, 2018 and 2020.
C17_EveryPersonHasALevelEveryYear ==
    (script = CFPS /\ OutputWritten) =>
        /\ {WrittenResult[i].pid : i \in DOMAIN WrittenResult} = DOMAIN disk
        /\ \A i \in DOMAIN WrittenResult : \A y \in SurveyYears :
               IsNum(WrittenResult[i].edu[y])

-----------------------------------------------------------------------------
(* C21 *)

\* the countries of a region whose rows the cleaner tests in a year, and the
\* column it tests: capital_activity_shares tests value_dep in the rows of
\* the countries both files hold
TestedRows(region, year) ==
    IF script = CAPITAL_SHARES
    THEN RowsOf("value", region, year) \cap RowsOf("value_dep", region, year)
    ELSE RowsOf("value", region, year)
TestedColumn == IF script = CAPITAL_SHARES THEN "value_dep" ELSE "value"

\* the region passed the coverage threshold in the year
PassedThreshold(region, year) ==
    Cardinality({c \in TestedRows(region, year) : ~IsNum(disk[<<TestedColumn, c, year>>])}) * 100
        < Cardinality(TestedRows(region, year)) * threshlod_nan(script, region)

\* the regional entries and the World entries the cleaned table holds for a year
RegionalOf(year) == SelectSeq(cleaned_data, LAMBDA e : e.year = year /\ e.region # "World")
WorldOf(year) == cleaned_group(cleaned_data, "World", "value", year)

\* C21: in capital_activities and capital_activity_shares, a World value for
\* a year is emitted if and only if all five FeliX regions passed the
\* coverage threshold in that year, and it is computed only from those five
\* emitted regional values (their sum; in capital_activity_shares the sum of
\* value_dep and the mean of the shares weighted by value_dep).
C21_WorldIffFiveRegionsPassed ==
    (script \in {CAPITAL, CAPITAL_SHARES} /\ Cleaned) =>
        \A year \in YearsRead :
            /\ (WorldOf(year) # <<>>) <=>
                   \A region \in Range(FelixRegions) : PassedThreshold(region, year)
            /\ WorldOf(year) # <<>> =>
                   /\ Len(WorldOf(year)) = 1
                   /\ [i \in 1..Len(RegionalOf(year)) |-> RegionalOf(year)[i].region]
                          = FelixRegions
                   /\ WorldOf(year)[1] =
                          IF script = CAPITAL
                          THEN Entry("World", "value", year,
                                     SumSeq(values(RegionalOf(year))))
                          ELSE shares_entry_glb(RegionalOf(year), year)

\* C21 (witness): a cleaner has emitted a World value for one year and none
\* for another year, in which a region is under the threshold
C21_Witness ==
    /\ script \in {CAPITAL, CAPITAL_SHARES}
    /\ Cleaned
    /\ \E y1, y2 \in YearsRead :
          /\ WorldOf(y1) # <<>>
          /\ WorldOf(y2) = <<>>
          /\ RegionalOf(y2) # <<>>
          /\ \E region \in Range(FelixRegions) : ~PassedThreshold(region, y2)

-----------------------------------------------------------------------------
(* C22 *)

\* the quantity of a record of the workbook in kg
QtyInKg(record) == IF record[1] = "l" THEN Mul(record[2], LitreToKg) ELSE record[2]

\* C22 (as stated): after the unit-conversion step of uncomtrade_oil, all
\* alternative units have been converted into kg: every raw trade record is
\* retained and its quantity is expressed in kg.
C22_EveryRecordRetainedInKg ==
    (script = COMTRADE /\ pc = "clean") =>
        /\ {raw_data[i].row : i \in DOMAIN raw_data} = DOMAIN disk
        /\ Len(raw_data) = Len(disk)
        /\ \A i \in DOMAIN raw_data :
               /\ raw_data[i].qtyUnitAbbr = "kg"
               /\ raw_data[i].qty = QtyInKg(disk[raw_data[i].row])

-----------------------------------------------------------------------------
(* C23 *)

\* the values the countries of a region report for a sex and year in the raw
\* files
AvailableValues(region, sex, year) ==
    [c \in {k \in Range(CountriesOf(script, region)) : IsNum(disk[<<sex, k, year>>])} |->
        disk[<<sex, c, year>>]]

\* v is the median of the values f: with an odd number of values the one
\* with as many values below as above, with an even number the mean of the
\* two values that split the others in halves
IsMedian(v, f) ==
    LET n == Cardinality(DOMAIN f)
    IN  IF n % 2 = 1
        THEN \E c \in DOMAIN f :
                /\ v = f[c]
                /\ Cardinality({k \in DOMAIN f : ~RatLeq(v, f[k])}) <= (n - 1) \div 2
                /\ Cardinality({k \in DOMAIN f : ~RatLeq(f[k], v)}) <= (n - 1) \div 2
        ELSE \E c1, c2 \in DOMAIN f :
                /\ c1 # c2
                /\ v = RatDiv(RatAdd(f[c1], f[c2]), Num(2))
                /\ RatLeq(f[c1], f[c2])
                /\ \E L \in SUBSET (DOMAIN f \ {c1, c2}) :
                      /\ Cardinality(L) = n \div 2 - 1
                      /\ \A k \in L : RatLeq(f[k], f[c1])
                      /\ \A k \in DOMAIN f \ (L \cup {c1, c2}) : RatLeq(f[c2], f[k])

\* C23: for each (region, sex, year) whose World enrolment value is not
\* missing, the emitted regional enrolment is the median of the region's
\* available country values divided by 100, or the World value divided by
\* 100 when no country value is available, and whether_world_average is true
\* exactly in the latter case.
C23_MedianOrWorldAverage ==
    (script = NET_ENROLL /\ Cleaned) =>
        \A i \in DOMAIN regions(script) : \A j \in DOMAIN genders : \A year \in YearsRead :
            LET region == regions(script)[i]
                sex == genders[j]
                raw_global == disk[<<sex, "World", year>>]
                available == AvailableValues(region, sex, year)
                emitted == cleaned_group(cleaned_data, region, sex, year)
            IN  IsNum(raw_global) =>
                   /\ Len(emitted) = 1
                   /\ emitted[1].whether_world_average = (DOMAIN available = {})
                   /\ IF DOMAIN available = {}
                      THEN emitted[1].value = RatDiv(raw_global, Num(100))
                      ELSE IsMedian(RatMul(emitted[1].value, Num(100)), available)

\* C23 (witness): the cleaner has emitted the World average for a region
\* without a value and the median of three values for another region
C23_Witness ==
    /\ script = NET_ENROLL
    /\ Cleaned
    /\ \E i, j \in DOMAIN cleaned_data :
          /\ cleaned_data[i].whether_world_average
          /\ ~cleaned_data[j].whether_world_average
          /\ Cardinality(DOMAIN AvailableValues(cleaned_data[j].region,
                                                cleaned_data[j].item,
                                                cleaned_data[j].year)) = 3

====
